---- MODULE Spec2Model ----
(***************************************************************************)
(* Verification model of bass-mongodb.                                     *)
(*                                                                         *)
(* Part 1 (specification Spec): the process-wide connection pool of        *)
(* lib/connection-factory.js: factory(), parseConfigOptions() and the      *)
(* asyncLock (beginAsync / endAsync / waitAsync), with the open callback   *)
(* of the driver and the setImmediate queue of the event loop.             *)
(*                                                                         *)
(* Part 2 (specification SpecResolve): the relation resolver of            *)
(* lib/mapper.js: mergeInRelations(), addOneToOneCalls(),                  *)
(* addOneToManyCalls() run under async.parallel.                           *)
(***************************************************************************)
EXTENDS Integers, Sequences, FiniteSets, TLC

VARIABLES
    mongoClients,   \* connection-factory.js: hash -> index of the MongoClient
    locked,         \* asyncLock.prototype.locked: sequence of hashes
    clients,        \* the MongoClient objects created so far, in creation order
    calls,          \* the factory(config, cb) invocations made so far
    immediates,     \* the event loop's setImmediate queue (indices into calls)
    metadata,       \* mergeInRelations: the metadata of the batch's entity
    rpc,            \* mergeInRelations: position of the resolve call
    data,           \* mergeInRelations: the batch of documents being hydrated
    tasks,          \* the functions pushed on `calls` for async.parallel
    fetches,        \* log of the findWhereIn calls issued
    cbLog,          \* invocations of mergeInRelations' cb
    source,         \* mergeInRelations: the batch as it was passed in
    query,          \* convertQueryToCriteria: the conditions of the query
    tpc,            \* convertQueryToCriteria: "start", "returned" or "threw"
    newQuery,       \* convertQueryToCriteria: the object returned
    fields,         \* mapCriteriaToDatabase: metadata.fields
    criteria,       \* mapCriteriaToDatabase: the criteria passed in
    mpc,            \* mapCriteriaToDatabase: "start" or "returned"
    dbCriteria,     \* mapCriteriaToDatabase: the object returned
    request,        \* Client: the operation called and its arguments
    store,          \* Client: the documents of the collection, in store order
    kpc,            \* Client: position of the operation
    cursor,         \* Client: the cursor of findByQuery / findBy
    storeCalls,     \* Client: the calls made on the collection, in order
    cbCalls,        \* Client: the invocations of the operation's cb
    queryResult,    \* Client: the QueryResult of findByQuery
    codecType,      \* codec: the type of the field whose value is converted
    codecValue,     \* codec: the value first passed in
    codecLog,       \* codec: the conversions made, each on the result of the last
    relModel,       \* convertModelRelationsToData: the model serialized
    relData,        \* the data object the references are written to
    relRead,        \* mapPartialRelationsToModel: the model read back
    relPc           \* "start", "written", "read" or "threw"

poolVars == <<mongoClients, locked, clients, calls, immediates>>
resolveVars == <<metadata, rpc, data, tasks, fetches, cbLog, source>>
translateVars == <<query, tpc, newQuery>>
criteriaVars == <<fields, criteria, mpc, dbCriteria>>
clientVars == <<request, store, kpc, cursor, storeCalls, cbCalls, queryResult>>
codecVars == <<codecType, codecValue, codecLog>>
relationVars == <<relModel, relData, relRead, relPc>>
vars == <<mongoClients, locked, clients, calls, immediates,
          metadata, rpc, data, tasks, fetches, cbLog, source,
          query, tpc, newQuery,
          fields, criteria, mpc, dbCriteria,
          request, store, kpc, cursor, storeCalls, cbCalls, queryResult,
          codecType, codecValue, codecLog,
          relModel, relData, relRead, relPc>>
nonPoolVars == <<resolveVars, translateVars, criteriaVars, clientVars, codecVars, relationVars>>
nonResolveVars == <<poolVars, translateVars, criteriaVars, clientVars, codecVars, relationVars>>
nonTranslateVars == <<poolVars, resolveVars, criteriaVars, clientVars, codecVars, relationVars>>
nonCriteriaVars == <<poolVars, resolveVars, translateVars, clientVars, codecVars, relationVars>>
nonClientVars == <<poolVars, resolveVars, translateVars, criteriaVars, codecVars, relationVars>>
nonCodecVars == <<poolVars, resolveVars, translateVars, criteriaVars, clientVars, relationVars>>
nonRelationVars == <<poolVars, resolveVars, translateVars, criteriaVars, clientVars, codecVars>>

(***************************************************************************)
(* Bounds                                                                  *)
(***************************************************************************)
MaxCalls == 3
MaxDocs == 3
MaxFields == 2

(***************************************************************************)
(* JavaScript values: a type tag, a number and a string.                   *)
(***************************************************************************)
Undef == [t |-> "undefined", n |-> 0, s |-> ""]
NaNV == [t |-> "nan", n |-> 0, s |-> ""]
Num(n) == [t |-> "number", n |-> n, s |-> ""]
Str(s) == [t |-> "string", n |-> 0, s |-> s]
Bool(b) == [t |-> "boolean", n |-> IF b THEN 1 ELSE 0, s |-> ""]

Digits == <<"0", "1", "2", "3", "4", "5", "6", "7", "8", "9">>

IsDigit(ch) == \E d \in 1..10 : Digits[d] = ch

DigitVal(ch) == (CHOOSE d \in 1..10 : Digits[d] = ch) - 1

\* length of the longest prefix of s made of decimal digits
RECURSIVE DigitPrefix(_, _)
DigitPrefix(s, i) ==
    IF i <= Len(s) /\ IsDigit(SubSeq(s, i, i)) THEN DigitPrefix(s, i + 1) ELSE i - 1

RECURSIVE DigitsValue(_, _)
DigitsValue(s, k) ==
    IF k = 0 THEN 0 ELSE DigitsValue(s, k - 1) * 10 + DigitVal(SubSeq(s, k, k))

RECURSIVE NatToString(_)
NatToString(n) ==
    IF n < 10 THEN Digits[n + 1] ELSE NatToString(n \div 10) \o Digits[(n % 10) + 1]

\* String(v), as used by the + operator on a string and a value
JsString(v) ==
    CASE v.t = "undefined" -> "undefined"
      [] v.t = "nan" -> "NaN"
      [] v.t = "number" -> IF v.n < 0 THEN "-" \o NatToString(0 - v.n) ELSE NatToString(v.n)
      [] v.t = "boolean" -> IF v.n = 1 THEN "true" ELSE "false"
      [] OTHER -> v.s

\* the global isNaN(v): is Number(v) NaN?  Number("") is 0, Number(true) is 1.
IsNaN(v) ==
    CASE v.t = "undefined" -> TRUE
      [] v.t = "nan" -> TRUE
      [] v.t = "number" -> FALSE
      [] v.t = "boolean" -> FALSE
      [] OTHER -> DigitPrefix(v.s, 1) # Len(v.s)

\* parseInt(v, 10): parses the decimal prefix of String(v)
ParseInt(v) ==
    IF v.t = "number"
    THEN v
    ELSE LET str == JsString(v)
             k == DigitPrefix(str, 1)
         IN IF k = 0 THEN NaNV ELSE Num(DigitsValue(str, k))

\* config[key]: a property the object does not have reads as undefined
Get(config, key) == IF key \in DOMAIN config THEN config[key] ELSE Undef

(***************************************************************************)
(* connection-factory.js                                                   *)
(***************************************************************************)
serverOptionKeys == <<"poolSize", "auto-reconnect">>

clientOptionKeys == <<"readPreference", "slaveOk", "ha", "w">>

RECURSIVE parseConfigOptionsFrom(_, _, _, _, _)
parseConfigOptionsFrom(config, keys, i, options, optionHash) ==
    IF i > Len(keys)
    THEN [options |-> options, hash |-> optionHash]
    ELSE LET key == keys[i]
         IN IF Get(config, key).t # "undefined"
            THEN LET val == IF ~IsNaN(Get(config, key))
                            THEN ParseInt(Get(config, key))
                            ELSE Get(config, key)
                 IN parseConfigOptionsFrom(config, keys, i + 1,
                        (key :> val) @@ options,
                        optionHash \o ":" \o key \o ":" \o JsString(val))
            ELSE parseConfigOptionsFrom(config, keys, i + 1, options, optionHash)

parseConfigOptions(config, keys) ==
    parseConfigOptionsFrom(config, keys, 1, <<>>, "")

\* faulty variant: no loopback normalisation
NormalizeHostNone(host) == host

\* "Normalize host if a loopback address is given"
NormalizeHost(host) ==
    IF host = Str("localhost") THEN Str("127.0.0.1") ELSE host

poolNamePart(config) ==
    IF Get(config, "poolName").t # "undefined"
    THEN ":" \o JsString(Get(config, "poolName")) \o ":"
    ELSE ""

connectionHash(config) ==
    JsString(NormalizeHost(Get(config, "host"))) \o ":" \o JsString(Get(config, "part"))
        \o poolNamePart(config) \o parseConfigOptions(config, serverOptionKeys).hash

\* faulty variant: the pool table is never consulted
HasClientNever(mc, hash) == FALSE

\* the test `!mongoClients[connectionHash]`, negated
HasClient(mc, hash) == hash \in DOMAIN mc

\* faulty variant: the lock is never seen as held
FoundNever(lck, hash) == FALSE


\* the search loop shared by waitAsync and beginAsync
Found(lck, hash) == \E i \in 1..Len(lck) : lck[i] = hash

beginAsync(lck, hash) == IF ~Found(lck, hash) THEN Append(lck, hash) ELSE lck

\* faulty variant: the lock is never released
endAsyncKeeps(lck, hash) == lck

endAsync(lck, hash) ==
    IF \E i \in 1..Len(lck) : lck[i] = hash
    THEN LET i == CHOOSE j \in 1..Len(lck) :
                      lck[j] = hash /\ \A k \in 1..(j - 1) : lck[k] # hash
         IN SubSeq(lck, 1, i - 1) \o SubSeq(lck, i + 1, Len(lck))
    ELSE lck

NoResult == [kind |-> "none", client |-> 0, database |-> Undef, err |-> ""]

\* connectToDb(client): cb(null, new Connection(client.db(config.database)))
connectToDb(config, client) ==
    [kind |-> "handle", client |-> client, database |-> Get(config, "database"), err |-> ""]

ErrResult(err) == [kind |-> "error", client |-> 0, database |-> Undef, err |-> err]

(***************************************************************************)
(* The configs the callers pass: one base config and every config that     *)
(* differs from it in exactly one property.                                *)
(***************************************************************************)
BaseConfig ==
    [k \in {"host", "port", "database", "poolSize", "auto-reconnect",
            "readPreference", "slaveOk", "ha", "w"} |->
        CASE k = "host" -> Str("localhost")
          [] k = "port" -> Str("27017")
          [] k = "database" -> Str("test")
          [] k = "poolSize" -> Num(5)
          [] k = "auto-reconnect" -> Bool(TRUE)
          [] k = "readPreference" -> Str("primary")
          [] k = "slaveOk" -> Bool(FALSE)
          [] k = "ha" -> Bool(TRUE)
          [] OTHER -> Num(1)]

Variants ==
    { <<"host", Str("127.0.0.1")>>, <<"port", Str("27018")>>,
      <<"poolSize", Num(10)>>, <<"poolSize", Str("5")>>,
      <<"auto-reconnect", Bool(FALSE)>>,
      <<"readPreference", Str("secondary")>>, <<"slaveOk", Bool(TRUE)>>,
      <<"ha", Bool(FALSE)>>, <<"w", Num(2)>>, <<"poolName", Str("p")>> }

Configs ==
    {BaseConfig} \cup { (v[1] :> v[2]) @@ BaseConfig : v \in Variants }

OpenErrors == {"ECONNREFUSED"}

(***************************************************************************)
(* Init                                                                    *)
(***************************************************************************)
InitPool ==
    /\ mongoClients = <<>>
    /\ locked = <<>>
    /\ clients = <<>>
    /\ calls = <<>>
    /\ immediates = <<>>

InitResolveIdle ==
    /\ metadata = [name |-> "none", oneToOne |-> <<>>, oneToMany |-> <<>>]
    /\ rpc = "idle"
    /\ data = <<>>
    /\ tasks = <<>>
    /\ fetches = <<>>
    /\ cbLog = <<>>
    /\ source = <<>>

InitTranslateIdle ==
    /\ query = <<>>
    /\ tpc = "idle"
    /\ newQuery = <<>>

InitCriteriaIdle ==
    /\ fields = <<>>
    /\ criteria = <<>>
    /\ mpc = "idle"
    /\ dbCriteria = <<>>

\* the parts of lib/mapper.js and lib/client.js that take no step in the
\* specifications of the pool, of the resolver and of the translator
InitClientIdle ==
    /\ request = <<>>
    /\ store = <<>>
    /\ kpc = "idle"
    /\ cursor = <<>>
    /\ storeCalls = <<>>
    /\ cbCalls = <<>>
    /\ queryResult = <<>>

InitCodecIdle ==
    /\ codecType = ""
    /\ codecValue = <<>>
    /\ codecLog = <<>>

InitRelationsIdle ==
    /\ relModel = <<>>
    /\ relData = <<>>
    /\ relRead = <<>>
    /\ relPc = "idle"

InitLaterIdle ==
    InitCriteriaIdle /\ InitClientIdle /\ InitCodecIdle /\ InitRelationsIdle

Init == InitPool /\ InitResolveIdle /\ InitTranslateIdle /\ InitLaterIdle

(***************************************************************************)
(* factory(config, cb)                                                     *)
(***************************************************************************)
Factory(config) ==
    /\ Len(calls) < MaxCalls
    /\ LET serverOptions == parseConfigOptions(config, serverOptionKeys)
           clientOptions == parseConfigOptions(config, clientOptionKeys)
           host == NormalizeHost(Get(config, "host"))
           hash == connectionHash(config)
           id == Len(calls) + 1
       IN IF ~HasClient(mongoClients, hash)
          THEN \* new MongoClient(new Server(...), ...); beginAsync; open(...)
               /\ clients' = Append(clients,
                      [host |-> host, port |-> Get(config, "port"),
                       serverOptions |-> serverOptions.options,
                       clientOptions |-> clientOptions.options,
                       hash |-> hash, state |-> "opening"])
               /\ mongoClients' = (hash :> (Len(clients) + 1)) @@ mongoClients
               /\ locked' = beginAsync(locked, hash)
               /\ calls' = Append(calls,
                      [config |-> config, hash |-> hash, pc |-> "opening",
                       client |-> Len(clients) + 1, role |-> "opener",
                       requeued |-> FALSE, result |-> NoResult, cbCount |-> 0])
               /\ UNCHANGED immediates
          ELSE \* _lock.waitAsync(connectionHash, connectToDb, [client])
               LET client == mongoClients[hash]
               IN IF Found(locked, hash)
                  THEN /\ calls' = Append(calls,
                              [config |-> config, hash |-> hash, pc |-> "waiting",
                               client |-> client, role |-> "waiter",
                               requeued |-> FALSE, result |-> NoResult, cbCount |-> 0])
                       /\ immediates' = Append(immediates, id)
                       /\ UNCHANGED <<mongoClients, locked, clients>>
                  ELSE /\ calls' = Append(calls,
                              [config |-> config, hash |-> hash, pc |-> "done",
                               client |-> client, role |-> "direct",
                               requeued |-> FALSE,
                               result |-> connectToDb(config, client), cbCount |-> 1])
                       /\ UNCHANGED <<mongoClients, locked, clients, immediates>>
    /\ UNCHANGED nonPoolVars

\* the callback of mongoClients[connectionHash].open, for the call that opened;
\* the driver passes the MongoClient itself as `client`
OpenCallback(c, err) ==
    /\ c \in 1..Len(calls)
    /\ calls[c].pc = "opening"
    /\ locked' = endAsync(locked, calls[c].hash)
    /\ IF err # ""
       THEN /\ clients' = [clients EXCEPT ![calls[c].client].state = "failed"]
            /\ calls' = [calls EXCEPT ![c].pc = "done",
                                      ![c].result = ErrResult(err),
                                      ![c].cbCount = @ + 1]
       ELSE /\ clients' = [clients EXCEPT ![calls[c].client].state = "open"]
            /\ calls' = [calls EXCEPT ![c].pc = "done",
                                      ![c].result = connectToDb(calls[c].config, calls[c].client),
                                      ![c].cbCount = @ + 1]
    /\ UNCHANGED <<mongoClients, immediates>>
    /\ UNCHANGED nonPoolVars

OpenSucceeds == \E c \in 1..MaxCalls : OpenCallback(c, "")

OpenFails == \E c \in 1..MaxCalls : \E err \in OpenErrors : OpenCallback(c, err)

\* the function given to setImmediate by waitAsync: waitAsync(hash, cb, args) again
RunImmediate ==
    /\ immediates # <<>>
    /\ LET c == Head(immediates)
       IN IF Found(locked, calls[c].hash)
          THEN /\ immediates' = Append(Tail(immediates), c)
               /\ calls' = [calls EXCEPT ![c].requeued = TRUE]
          ELSE /\ immediates' = Tail(immediates)
               /\ calls' = [calls EXCEPT ![c].pc = "done",
                                         ![c].result = connectToDb(calls[c].config, calls[c].client),
                                         ![c].cbCount = @ + 1]
    /\ UNCHANGED <<mongoClients, locked, clients>>
    /\ UNCHANGED nonPoolVars

Acquire == \E config \in Configs : Factory(config)

Next == Acquire \/ OpenSucceeds \/ OpenFails \/ RunImmediate

Spec == Init /\ [][Next]_vars

(***************************************************************************)
(* Properties of the connection pool                                       *)
(***************************************************************************)
CallIds == 1..Len(calls)

\* the number of open() calls made for a fingerprint: every MongoClient the
\* factory creates has open called on it exactly once
OpenCalls(h) == Cardinality({k \in 1..Len(clients) : clients[k].hash = h})

OpenCompleted(h) ==
    \E k \in 1..Len(clients) : clients[k].hash = h /\ clients[k].state # "opening"

\* two configs that are the same except for the value of property key
DiffersOnlyIn(c1, c2, key) ==
    /\ Get(c1, key) # Get(c2, key)
    /\ \A k \in (DOMAIN c1 \cup DOMAIN c2) \ {key} : Get(c1, k) = Get(c2, k)

\* C1: however many factory calls are made for one fingerprint while no open
\* for it has completed, open has been called exactly once for that fingerprint.
C1_OneOpenWhileInFlight ==
    \A c \in CallIds :
        ~OpenCompleted(calls[c].hash) => OpenCalls(calls[c].hash) = 1

C1_Witness ==
    /\ Len(calls) >= 3
    /\ \A c \in CallIds : calls[c].hash = calls[1].hash /\ calls[c].pc # "done"
    /\ \E c \in CallIds : calls[c].requeued
    /\ OpenCalls(calls[1].hash) = 1

\* C2: when the open of a fingerprint fails, every caller that waited on that
\* fingerprint gets the error the opener got, and none gets a handle.
C2_WaitersGetTheError ==
    \A c \in CallIds :
        (calls[c].role = "waiter" /\ calls[c].pc = "done"
            /\ clients[calls[c].client].state = "failed")
        => /\ calls[c].result.kind = "error"
           /\ \A o \in CallIds :
                  (calls[o].role = "opener" /\ calls[o].client = calls[c].client)
                  => calls[c].result = calls[o].result

\* C3: after a failed open the pool table has no entry for the fingerprint.
C3_FailedEntryRemoved ==
    \A h \in DOMAIN mongoClients : clients[mongoClients[h]].state # "failed"

\* C4: two factory calls with the same config, the second made without
\* awaiting the first, both get a handle on the client of the single open
\* once that open has succeeded.
C4_SameClient ==
    \A c1 \in CallIds : \A c2 \in CallIds :
        (/\ c1 < c2
         /\ calls[c1].config = calls[c2].config
         /\ calls[c1].pc = "done" /\ calls[c2].pc = "done"
         /\ clients[calls[c1].client].state = "open")
        => /\ calls[c1].result.kind = "handle"
           /\ calls[c2].result.kind = "handle"
           /\ calls[c1].result.client = calls[c2].result.client
           /\ calls[c1].result.client = mongoClients[calls[c1].hash]
           /\ OpenCalls(calls[c1].hash) = 1

C4_Witness ==
    \E c1 \in CallIds : \E c2 \in CallIds :
        /\ c1 < c2
        /\ calls[c1].config = calls[c2].config
        /\ calls[c1].role = "opener" /\ calls[c2].role = "waiter"
        /\ calls[c1].pc = "done" /\ calls[c2].pc = "done"
        /\ clients[calls[c1].client].state = "open"
        /\ calls[c2].result.kind = "handle"

\* C5: a step that runs a caller's callback with a handle ends in a state where
\* the caller's fingerprint is not locked and its open is not in flight; a
\* resumption that finds the lock held only re-queues the caller.
C5_NoHandleWhileOpening ==
    [][\A c \in 1..Len(calls') :
          /\ (/\ calls'[c].cbCount > (IF c <= Len(calls) THEN calls[c].cbCount ELSE 0)
              /\ calls'[c].result.kind = "handle")
             => /\ \A i \in 1..Len(locked') : locked'[i] # calls'[c].hash
                /\ clients'[calls'[c].client].state # "opening"
          /\ (/\ c <= Len(calls)
              /\ calls[c].pc = "waiting"
              /\ \E i \in 1..Len(locked) : locked[i] = calls[c].hash)
             => calls'[c].pc = "waiting" /\ calls'[c].cbCount = 0]_vars

C5_Witness ==
    \E c \in CallIds :
        /\ calls[c].role = "waiter" /\ calls[c].requeued
        /\ calls[c].pc = "done" /\ calls[c].result.kind = "handle"
        /\ clients[calls[c].client].state = "open"

\* C6: a factory call for a fingerprint whose entry is ready runs its callback
\* with the entry's handle inside the call, opens nothing and waits for
\* nothing; no step removes or replaces a ready entry.
C6_ReadyEntryServedAtOnce ==
    [][\A h \in DOMAIN mongoClients :
          clients[mongoClients[h]].state = "open"
          => /\ h \in DOMAIN mongoClients'
             /\ mongoClients'[h] = mongoClients[h]
             /\ clients'[mongoClients[h]] = clients[mongoClients[h]]
             /\ (Len(calls') > Len(calls) /\ calls'[Len(calls')].hash = h)
                => /\ calls'[Len(calls')].pc = "done"
                   /\ calls'[Len(calls')].cbCount = 1
                   /\ calls'[Len(calls')].result.kind = "handle"
                   /\ calls'[Len(calls')].result.client = mongoClients[h]
                   /\ clients' = clients
                   /\ immediates' = immediates]_vars

C6_Witness ==
    \E c \in CallIds :
        /\ calls[c].role = "direct"
        /\ calls[c].result.kind = "handle"
        /\ clients[calls[c].result.client].state = "open"
        /\ OpenCalls(calls[c].hash) = 1

\* C7: two factory calls whose configs differ only in the port have different
\* fingerprints and each opens its own client.
C7_PortInFingerprint ==
    \A c1 \in CallIds : \A c2 \in CallIds :
        DiffersOnlyIn(calls[c1].config, calls[c2].config, "port")
        => /\ calls[c1].hash # calls[c2].hash
           /\ calls[c1].client # calls[c2].client

ConnectionOptionKeys ==
    {"poolSize", "auto-reconnect", "readPreference", "slaveOk", "ha", "w"}

\* C8: two factory calls whose configs differ only in the value of one
\* connection option have different fingerprints and each opens its own client.
C8_OptionsInFingerprint ==
    \A c1 \in CallIds : \A c2 \in CallIds : \A key \in ConnectionOptionKeys :
        DiffersOnlyIn(calls[c1].config, calls[c2].config, key)
        => /\ calls[c1].hash # calls[c2].hash
           /\ calls[c1].client # calls[c2].client

\* C9: two factory calls whose configs differ only in the host, one being
\* 'localhost' and the other '127.0.0.1', have the same fingerprint, share one
\* pool entry and cause one open.
C9_LoopbackNormalized ==
    \A c1 \in CallIds : \A c2 \in CallIds :
        (/\ DiffersOnlyIn(calls[c1].config, calls[c2].config, "host")
         /\ Get(calls[c1].config, "host") = Str("localhost")
         /\ Get(calls[c2].config, "host") = Str("127.0.0.1"))
        => /\ calls[c1].hash = calls[c2].hash
           /\ calls[c1].client = calls[c2].client
           /\ OpenCalls(calls[c1].hash) = 1

C9_Witness ==
    \E c1 \in CallIds : \E c2 \in CallIds :
        /\ DiffersOnlyIn(calls[c1].config, calls[c2].config, "host")
        /\ Get(calls[c1].config, "host") = Str("localhost")
        /\ Get(calls[c2].config, "host") = Str("127.0.0.1")
        /\ calls[c1].pc = "done" /\ calls[c2].pc = "done"
        /\ calls[c1].result.kind = "handle"
        /\ calls[c2].result.kind = "handle"

(***************************************************************************)
(* mapper.js: the relation resolver                                        *)
(*                                                                         *)
(* A value held in a document: a kind, a string, the identity of the       *)
(* object (0 for a primitive) and, for a list, its elements.               *)
(***************************************************************************)
Absent == [k |-> "undefined", s |-> "", ref |-> 0, l |-> <<>>]
IdString(str) == [k |-> "string", s |-> str, ref |-> 0, l |-> <<>>]
ObjectID(hex, ref) == [k |-> "oid", s |-> hex, ref |-> ref, l |-> <<>>]
IdList(seq) == [k |-> "list", s |-> "", ref |-> 0, l |-> seq]
Model(key, ref) == [k |-> "model", s |-> key, ref |-> ref, l |-> <<>>]

HexChars == "0123456789abcdefABCDEF"

IsHexChar(ch) == \E i \in 1..Len(HexChars) : SubSeq(HexChars, i, i) = ch

\* ObjectID.isValid for a string: 12 bytes, or 24 hexadecimal characters
ObjectIDIsValid(v) ==
    /\ v.k = "string"
    /\ \/ Len(v.s) = 12
       \/ Len(v.s) = 24 /\ \A i \in 1..24 : IsHexChar(SubSeq(v.s, i, i))

\* try { oid = new ObjectID(v) } catch (e) { oid = v }: an ObjectID instance is
\* returned as it is, a missing value yields a newly generated ObjectID, a
\* valid string is wrapped in a new object, anything else throws
WrapObjectID(v, ref) ==
    CASE v.k = "oid" -> v
      [] v.k = "undefined" -> ObjectID("generated", ref)
      [] ObjectIDIsValid(v) ->
            ObjectID(IF Len(v.s) = 24 THEN v.s ELSE "bytes:" \o v.s, ref)
      [] OTHER -> v

\* _.uniq: the first occurrence of every value; primitives are compared by
\* value, objects by identity
RECURSIVE UniqFrom(_, _, _)
UniqFrom(seq, i, acc) ==
    IF i > Len(seq)
    THEN acc
    ELSE UniqFrom(seq, i + 1,
            IF \E j \in 1..Len(acc) : acc[j] = seq[i] THEN acc ELSE Append(acc, seq[i]))

Uniq(seq) == UniqFrom(seq, 1, <<>>)

\* a value used as a property key: String(v)
PropKey(v) ==
    CASE v.k = "undefined" -> "undefined"
      [] v.k = "string" -> v.s
      [] v.k = "oid" -> v.s
      [] OTHER -> "[object Object]"

(***************************************************************************)
(* The metadata registry and the target collections of the store           *)
(***************************************************************************)
TargetMetadata(name, idFieldName) ==
    [name |-> name, idFieldName |-> idFieldName, idPropertyName |-> "id"]

Relation(field, document) == [field |-> field, document |-> document]

OrderMetadata(shipperIdField) ==
    [name |-> "Order",
     oneToOne |-> <<Relation("customer", "Customer"), Relation("shipper", "Shipper")>>,
     oneToMany |-> <<Relation("items", "Item")>>,
     registry |-> [n \in {"Customer", "Shipper", "Item"} |->
                      TargetMetadata(n, IF n = "Shipper" THEN shipperIdField ELSE "_id")]]

Metadatas == {OrderMetadata("_id"), OrderMetadata("code")}

HexId1 == "5f00000000000000000000a1"

\* the identifiers of the documents of each target collection
StoreIds(document) ==
    CASE document = "Customer" -> {IdString("C1"), IdString("C2"), ObjectID(HexId1, 0)}
      [] document = "Shipper" -> {IdString("S1")}
      [] OTHER -> {IdString("I1"), IdString("I2")}

\* the store compares identifiers by value
SameId(a, b) == a.k = b.k /\ a.s = b.s

\* the documents matching {field: {$in: ids}} in the collection of a target
StoreFind(meta, document, field, ids) ==
    IF field = meta.registry[document].idFieldName
    THEN {t \in StoreIds(document) : \E i \in 1..Len(ids) : SameId(ids[i], t)}
    ELSE {}

\* the orders in which the store may return a set of documents
Orderings(S) ==
    {seq \in [1..Cardinality(S) -> S] :
        \A i \in 1..Cardinality(S) : \A j \in 1..Cardinality(S) :
            seq[i] = seq[j] => i = j}

Doc(customer, shipper, items) ==
    [f \in {"customer", "shipper", "items"} |->
        CASE f = "customer" -> customer
          [] f = "shipper" -> shipper
          [] OTHER -> items]

DocChoices ==
    { Doc(IdString("C1"), IdString("S1"), IdList(<<IdString("I1"), IdString("I2")>>)),
      Doc(IdString("C2"), IdString("S1"), IdList(<<IdString("I2"), IdString("I1")>>)),
      Doc(IdString("C1"), Absent, IdList(<<>>)),
      Doc(Absent, IdString("S9"), IdList(<<IdString("I9"), IdString("I1")>>)),
      Doc(ObjectID(HexId1, 0), Absent, Absent),
      Doc(IdString(HexId1), IdString("S1"), IdList(<<IdString("I1")>>)) }

\* every document read from the store has its own ObjectID instances
OwnInstances(doc, d) ==
    [f \in DOMAIN doc |->
        IF doc[f].k = "oid" THEN ObjectID(doc[f].s, d) ELSE doc[f]]

Batches ==
    UNION { { [d \in 1..n |-> OwnInstances(b[d], d)] : b \in [1..n -> DocChoices] } :
            n \in 0..MaxDocs }

(***************************************************************************)
(* mergeInRelations, addOneToOneCalls, addOneToManyCalls                   *)
(***************************************************************************)
\* the early return of mergeInRelations: its second conjunct compares the
\* collection of one-to-many relations itself with 0, which is never equal
NoRelations(meta) == Len(meta.oneToOne) = 0 /\ FALSE

\* idFieldName of addOneToOneCalls is a `var` of the function, not of the
\* closure pushed on calls: when the closures run, it holds the value of the
\* last iteration of the loop
OneToOneIdFieldName(meta, i) ==
    meta.registry[meta.oneToOne[Len(meta.oneToOne)].document].idFieldName

NewTask(kind, relation, idFieldName) ==
    [kind |-> kind, field |-> relation.field, document |-> relation.document,
     idFieldName |-> idFieldName, st |-> "new", ids |-> <<>>, related |-> <<>>]

\* the array `calls` after addOneToOneCalls and addOneToManyCalls
BuildCalls(meta) ==
    [i \in 1..Len(meta.oneToOne) |->
        NewTask("one", meta.oneToOne[i], OneToOneIdFieldName(meta, i))]
    \o
    [i \in 1..Len(meta.oneToMany) |->
        NewTask("many", meta.oneToMany[i],
                meta.registry[meta.oneToMany[i].document].idFieldName)]

\* addOneToOneCalls: ids of the batch for a field, after _.uniq
CollectOneIds(batch, field, t) ==
    Uniq([d \in 1..Len(batch) |-> WrapObjectID(batch[d][field], 10 * t + d)])

RECURSIVE Flatten(_, _, _)
Flatten(batch, field, d) ==
    IF d > Len(batch) THEN <<>> ELSE batch[d][field].l \o Flatten(batch, field, d + 1)

\* addOneToManyCalls: obj[relation.field].forEach throws a TypeError unless
\* the field holds an array
CollectManyThrows(batch, field) ==
    \E d \in 1..Len(batch) : batch[d][field].k # "list"

CollectManyIds(batch, field) == Uniq(Flatten(batch, field, 1))

TaskThrows(batch, task) ==
    task.kind = "many" /\ CollectManyThrows(batch, task.field)

TaskIds(batch, task, t) ==
    IF task.kind = "one"
    THEN CollectOneIds(batch, task.field, t)
    ELSE CollectManyIds(batch, task.field)

\* faulty variant: one fetch per source document
FetchesOfPerDoc(batch, task, t, ids) ==
    [d \in 1..Len(batch) |->
        [task |-> t, field |-> task.field, document |-> task.document,
         idFieldName |-> task.idFieldName, ids |-> ids]]

\* the findWhereIn calls a task makes for its collected ids
FetchesOf(batch, task, t, ids) ==
    IF Len(ids) > 0
    THEN <<[task |-> t, field |-> task.field, document |-> task.document,
            idFieldName |-> task.idFieldName, ids |-> ids]>>
    ELSE <<>>

\* the synchronous part of the function pushed on calls
RunTask(batch, task, t) ==
    IF TaskThrows(batch, task)
    THEN [task EXCEPT !.st = "threw"]
    ELSE LET ids == TaskIds(batch, task, t)
         IN [task EXCEPT !.ids = ids,
                         !.st = IF Len(ids) > 0 THEN "fetching" ELSE "done"]

RECURSIVE FetchLog(_, _, _)
FetchLog(batch, ts, t) ==
    IF t > Len(ts)
    THEN <<>>
    ELSE (IF ts[t].st \in {"fetching", "done"}
          THEN FetchesOf(batch, ts[t], t, ts[t].ids)
          ELSE <<>>) \o FetchLog(batch, ts, t + 1)

OkEntry == [err |-> "", batch |-> TRUE]

ErrEntry(err) == [err |-> err, batch |-> FALSE]

\* faulty variant: the final callback runs when the first task completes
ParallelDoneFirst(log, ts, err) ==
    IF Len(log) > 0
    THEN log
    ELSE IF err # ""
         THEN Append(log, ErrEntry(err))
         ELSE IF \E t \in 1..Len(ts) : ts[t].st = "done"
              THEN Append(log, OkEntry)
              ELSE log

\* faulty variant: every error reaches the final callback
ParallelDoneEveryError(log, ts, err) ==
    IF err # ""
    THEN Append(log, ErrEntry(err))
    ELSE IF Len(log) > 0
         THEN log
         ELSE IF \A t \in 1..Len(ts) : ts[t].st = "done"
              THEN Append(log, OkEntry)
              ELSE log

\* the callback async.parallel gives each task: the final callback runs once,
\* with the first error, or without one when every task has completed
ParallelDone(log, ts, err) ==
    IF Len(log) > 0
    THEN log
    ELSE IF err # ""
         THEN Append(log, ErrEntry(err))
         ELSE IF \A t \in 1..Len(ts) : ts[t].st = "done"
              THEN Append(log, OkEntry)
              ELSE log

InitResolve ==
    /\ InitPool
    /\ InitTranslateIdle
    /\ InitLaterIdle
    /\ metadata \in Metadatas
    /\ rpc = "start"
    /\ data \in Batches
    /\ source = data
    /\ tasks = <<>>
    /\ fetches = <<>>
    /\ cbLog = <<>>

MergeInRelations ==
    /\ rpc = "start"
    /\ IF NoRelations(metadata)
       THEN /\ cbLog' = <<OkEntry>>
            /\ rpc' = "returned"
            /\ UNCHANGED <<tasks, fetches>>
       ELSE LET built == BuildCalls(metadata)
                throwers == {t \in 1..Len(built) : TaskThrows(data, built[t])}
                last == IF throwers = {}
                        THEN Len(built)
                        ELSE CHOOSE t \in throwers : \A u \in throwers : t <= u
                ran == [t \in 1..Len(built) |->
                           IF t <= last THEN RunTask(data, built[t], t) ELSE built[t]]
            IN /\ tasks' = ran
               /\ fetches' = FetchLog(data, ran, 1)
               /\ rpc' = IF throwers = {} THEN "returned" ELSE "threw"
               /\ cbLog' = ParallelDone(<<>>, ran, "")
    /\ UNCHANGED <<metadata, data, source>>
    /\ UNCHANGED nonResolveVars

\* the callback of findWhereIn
FetchCallback(t, err, relatedData) ==
    /\ tasks[t].st = "fetching"
    /\ IF err # ""
       THEN LET ts == [tasks EXCEPT ![t].st = "failed"]
            IN tasks' = ts /\ cbLog' = ParallelDone(cbLog, ts, err)
       ELSE /\ tasks' = [tasks EXCEPT ![t].st = "mapping", ![t].related = relatedData]
            /\ UNCHANGED cbLog
    /\ UNCHANGED <<metadata, rpc, data, fetches, source>>
    /\ UNCHANGED nonResolveVars

FetchFails ==
    \E t \in 1..Len(tasks) : FetchCallback(t, "fetch failed: " \o tasks[t].field, <<>>)

FetchReturns ==
    \E t \in 1..Len(tasks) :
        \E relatedData \in Orderings(StoreFind(metadata, tasks[t].document,
                                               tasks[t].idFieldName, tasks[t].ids)) :
            FetchCallback(t, "", relatedData)

\* docMap[...]: the model built from the fetched document with that key
DocMapGet(task, t, key) ==
    IF \E i \in 1..Len(task.related) : PropKey(task.related[i]) = key
    THEN Model(key, t)
    ELSE Absent

\* faulty variant: a list field gets its targets in the order of the fetch result
HydratedStoreOrder(task, t, value) ==
    IF task.kind = "one"
    THEN DocMapGet(task, t, PropKey(value))
    ELSE LET Wanted(r) == \E i \in 1..Len(value.l) : PropKey(value.l[i]) = PropKey(r)
             sel == SelectSeq(task.related, Wanted)
         IN IdList([j \in 1..Len(sel) |-> Model(PropKey(sel[j]), t)])

\* data.forEach: the new value of obj[relation.field]
Hydrated(task, t, value) ==
    IF task.kind = "one"
    THEN DocMapGet(task, t, PropKey(value))
    ELSE IdList([i \in 1..Len(value.l) |-> DocMapGet(task, t, PropKey(value.l[i]))])
\* faulty variant: the targets are attached before the error of
\* mapDataToModels is looked at
MapCallbackAttachesFirst(t, err) ==
    /\ tasks[t].st = "mapping"
    /\ data' = [d \in 1..Len(data) |->
                  [data[d] EXCEPT ![tasks[t].field] =
                      Hydrated(tasks[t], t, data[d][tasks[t].field])]]
    /\ IF err # ""
       THEN LET ts == [tasks EXCEPT ![t].st = "failed"]
            IN tasks' = ts /\ cbLog' = ParallelDone(cbLog, ts, err)
       ELSE LET ts == [tasks EXCEPT ![t].st = "done"]
            IN tasks' = ts /\ cbLog' = ParallelDone(cbLog, ts, "")
    /\ UNCHANGED <<metadata, rpc, fetches, source>>
    /\ UNCHANGED nonResolveVars

\* the callback of relationManager.mapDataToModels
MapCallback(t, err) ==
    /\ tasks[t].st = "mapping"
    /\ IF err # ""
       THEN LET ts == [tasks EXCEPT ![t].st = "failed"]
            IN tasks' = ts /\ cbLog' = ParallelDone(cbLog, ts, err) /\ UNCHANGED data
       ELSE LET ts == [tasks EXCEPT ![t].st = "done"]
            IN /\ data' = [d \in 1..Len(data) |->
                             [data[d] EXCEPT ![tasks[t].field] =
                                 Hydrated(tasks[t], t, data[d][tasks[t].field])]]
               /\ tasks' = ts
               /\ cbLog' = ParallelDone(cbLog, ts, "")
    /\ UNCHANGED <<metadata, rpc, fetches, source>>
    /\ UNCHANGED nonResolveVars

MapFails == \E t \in 1..Len(tasks) : MapCallback(t, "map failed: " \o tasks[t].field)

MapDone == \E t \in 1..Len(tasks) : MapCallback(t, "")

NextResolve == MergeInRelations \/ FetchFails \/ FetchReturns \/ MapFails \/ MapDone

SpecResolve == InitResolve /\ [][NextResolve]_vars

(***************************************************************************)
(* Properties of the relation resolver                                     *)
(***************************************************************************)
FetchCount(t) == Cardinality({i \in 1..Len(fetches) : fetches[i].task = t})

\* C10: in one mergeInRelations call every relation field whose collected id
\* list is not empty has exactly one findWhereIn call, and a field whose list
\* is empty has none, whatever the number of documents and however often an id
\* repeats in the batch.
C10_OneFetchPerField ==
    \A t \in 1..Len(tasks) :
        /\ FetchCount(t) <= 1
        /\ tasks[t].st \notin {"new", "threw"}
           => FetchCount(t) = (IF Len(tasks[t].ids) > 0 THEN 1 ELSE 0)

C10_Witness ==
    /\ Len(data) >= 3
    /\ \E d1 \in 1..Len(data) : \E d2 \in 1..Len(data) :
           d1 # d2 /\ data[d1]["customer"] = IdString("C1")
                   /\ data[d2]["customer"] = IdString("C1")
    /\ \E t \in 1..Len(tasks) :
           tasks[t].field = "customer" /\ tasks[t].st = "fetching" /\ FetchCount(t) = 1
    /\ Len(fetches) = Len(tasks)

\* the foreign ids a document's relation field refers to
RefsOf(value) ==
    CASE value.k = "undefined" -> {}
      [] value.k = "list" -> {value.l[i] : i \in 1..Len(value.l)}
      [] OTHER -> {value}

Occurrences(ids, v) ==
    Cardinality({j \in 1..Len(ids) : PropKey(ids[j]) = PropKey(v)})

\* C11: the id list of every findWhereIn call holds each foreign id that the
\* batch refers to exactly once, for ids kept as strings and for ids wrapped
\* in an ObjectID alike.
C11_IdsDeduplicated ==
    \A i \in 1..Len(fetches) :
        \A d \in 1..Len(source) :
            \A v \in RefsOf(source[d][fetches[i].field]) :
                Occurrences(fetches[i].ids, v) = 1

\* C12: only the documents that hold a value in a one-to-one field contribute
\* an id to the field's list; when no document of the batch holds one, there
\* is no findWhereIn call for the field and the field is left as it was.
C12_AbsentContributesNothing ==
    \A t \in 1..Len(tasks) :
        (tasks[t].kind = "one" /\ tasks[t].st \notin {"new", "threw"})
        => /\ Len(tasks[t].ids)
                 <= Cardinality({d \in 1..Len(source) :
                                    source[d][tasks[t].field].k # "undefined"})
           /\ (\A d \in 1..Len(source) : source[d][tasks[t].field].k = "undefined")
              => /\ FetchCount(t) = 0
                 /\ \A d \in 1..Len(data) :
                        data[d][tasks[t].field] = source[d][tasks[t].field]

Succeeded == Len(cbLog) = 1 /\ cbLog[1] = OkEntry

TargetKeys(document) == {PropKey(id) : id \in StoreIds(document)}

TaskOf(field) == CHOOSE t \in 1..Len(tasks) : tasks[t].field = field

\* C13: after a successful resolve every document's one-to-one field holds the
\* model of the target whose identifier is the document's reference, two
\* documents with the same reference hold the same object, and a reference
\* that no target has leaves the field absent.
C13_SingleReferenceHydrated ==
    Succeeded =>
        \A i \in 1..Len(metadata.oneToOne) :
            LET rel == metadata.oneToOne[i]
            IN \A d \in 1..Len(source) :
                   /\ source[d][rel.field].k # "undefined"
                      => data[d][rel.field] =
                             (IF PropKey(source[d][rel.field]) \in TargetKeys(rel.document)
                              THEN Model(PropKey(source[d][rel.field]), TaskOf(rel.field))
                              ELSE Absent)
                   /\ \A e \in 1..Len(source) :
                          (/\ source[d][rel.field].k # "undefined"
                           /\ PropKey(source[d][rel.field]) = PropKey(source[e][rel.field]))
                          => data[d][rel.field] = data[e][rel.field]

\* C14: after a successful resolve every document's one-to-many field is a
\* list as long as the document's own id list, whose i-th element is the model
\* of the target with the i-th id, or absent when no target has that id,
\* whatever the order of the fetch result and the lists of other documents.
C14_ListOrderPreserved ==
    Succeeded =>
        \A r \in 1..Len(metadata.oneToMany) :
            LET rel == metadata.oneToMany[r]
            IN \A d \in 1..Len(source) :
                   /\ data[d][rel.field].k = "list"
                   /\ Len(data[d][rel.field].l) = Len(source[d][rel.field].l)
                   /\ \A i \in 1..Len(source[d][rel.field].l) :
                          data[d][rel.field].l[i] =
                              (IF PropKey(source[d][rel.field].l[i]) \in TargetKeys(rel.document)
                               THEN Model(PropKey(source[d][rel.field].l[i]), TaskOf(rel.field))
                               ELSE Absent)

C14_Witness ==
    /\ Succeeded
    /\ \E d \in 1..Len(source) : \E e \in 1..Len(source) : \E g \in 1..Len(source) :
           /\ source[d]["items"] = IdList(<<IdString("I1"), IdString("I2")>>)
           /\ source[e]["items"] = IdList(<<IdString("I2"), IdString("I1")>>)
           /\ source[g]["items"] = IdList(<<IdString("I9"), IdString("I1")>>)
           /\ data[e]["items"].l[1] = Model("I2", TaskOf("items"))
           /\ data[g]["items"].l[1] = Absent
    /\ tasks[TaskOf("items")].related = <<IdString("I1"), IdString("I2")>>

\* C15: when a findWhereIn of a resolve fails, the callback of
\* mergeInRelations has been invoked exactly once, with an error and no batch
\* (the error of that fetch when it is the first failure of the call); the
\* callback is never invoked with a batch while a relation field is not
\* hydrated.
C15_FailureReportedOnce ==
    [][/\ Len(cbLog') <= 1
       /\ (\E t \in 1..Len(tasks') : tasks'[t].st = "failed")
          => /\ Len(cbLog') = 1
             /\ cbLog'[1].err # ""
             /\ ~cbLog'[1].batch
       /\ \A t \in 1..Len(tasks) :
              (tasks[t].st = "fetching" /\ tasks'[t].st = "failed")
              => cbLog' = (IF cbLog = <<>>
                           THEN <<ErrEntry("fetch failed: " \o tasks[t].field)>>
                           ELSE cbLog)
       /\ (Len(cbLog') = 1 /\ cbLog'[1].batch)
          => \A t \in 1..Len(tasks') : tasks'[t].st = "done"]_vars

C15_Witness ==
    /\ cbLog = <<ErrEntry("fetch failed: shipper")>>
    /\ \E t \in 1..Len(tasks) : tasks[t].field = "customer" /\ tasks[t].st = "failed"
    /\ \E t \in 1..Len(tasks) : tasks[t].field = "shipper" /\ tasks[t].st = "failed"
    /\ \E t \in 1..Len(tasks) : tasks[t].field = "items" /\ tasks[t].st = "done"
                                   /\ Len(tasks[t].ids) > 0

\* C16: once the callback of mergeInRelations has been invoked with an error,
\* no document of the batch is modified by a fetch of the same call that
\* completes later.
C16_NoWriteAfterFailure ==
    [][(Len(cbLog) = 1 /\ cbLog[1].err # "") => data' = data]_vars

IsHydratedValue(v) ==
    \/ v.k \in {"model", "undefined"}
    \/ v.k = "list" /\ \A i \in 1..Len(v.l) : v.l[i].k \in {"model", "undefined"}

\* C17: the findWhereIn calls of all relation fields are issued in the step
\* that runs mergeInRelations, before any of their callbacks, and none is
\* issued later; the callback of mergeInRelations is invoked without error
\* only when every task has completed and written its field.
C17_FanOutThenJoin ==
    [][/\ rpc # "start" => fetches' = fetches
       /\ (rpc = "start" /\ rpc' = "returned")
          => \A t \in 1..Len(tasks') :
                 Len(tasks'[t].ids) > 0
                 => /\ tasks'[t].st = "fetching"
                    /\ \E i \in 1..Len(fetches') : fetches'[i].task = t
       /\ (Len(cbLog') = 1 /\ cbLog'[1] = OkEntry)
          => \A t \in 1..Len(tasks') :
                 /\ tasks'[t].st = "done"
                 /\ Len(tasks'[t].ids) > 0
                    => \A d \in 1..Len(data') : IsHydratedValue(data'[d][tasks'[t].field])]_vars

C17_Witness ==
    /\ Succeeded
    /\ Len(tasks) = 3
    /\ \A t \in 1..Len(tasks) : FetchCount(t) = 1 /\ Len(tasks[t].related) > 0
    /\ \A d \in 1..Len(data) : \A f \in DOMAIN data[d] : IsHydratedValue(data[d][f])

(***************************************************************************)
(* client.js: convertQueryToCriteria                                       *)
(*                                                                         *)
(* A condition value: the result of typeof, the name of its constructor,   *)
(* its content as a string, and its enumerable properties.                 *)
(***************************************************************************)
Value(t, ctor, v) == [t |-> t, ctor |-> ctor, v |-> v, props |-> <<>>]

Object(ctor, v, props) == [t |-> "object", ctor |-> ctor, v |-> v, props |-> props]

NullValue == Value("object", "", "null")

\* typeof null is 'object', and reading null.constructor throws a TypeError
IsNull(value) == value.t = "object" /\ value.v = "null"

FieldNames == <<"age", "name", "created">>

Fields ==
    {IF i <= Len(FieldNames) THEN FieldNames[i] ELSE "field" \o NatToString(i) :
        i \in 1..MaxFields}

ConditionValues ==
    { Value("number", "Number", "18"),
      Value("string", "String", "bob"),
      NullValue,
      Object("ObjectID", HexId1, <<>>),
      Object("ObjectId", HexId1, <<>>),
      Object("Date", "2020-01-01T00:00:00.000Z", <<>>),
      Object("Array", "", ("0" :> Value("number", "Number", "1"))
                          @@ ("1" :> Value("number", "Number", "2"))),
      Object("Object", "", ("gt" :> Value("number", "Number", "18"))),
      Object("Object", "", ("gt" :> Value("number", "Number", "18"))
                           @@ ("lt" :> Value("number", "Number", "65"))),
      Object("Object", "", ("foo" :> Value("number", "Number", "1"))
                           @@ ("$gt" :> Value("string", "String", "x"))) }

\* query.getConditions(): a mapping from some fields to condition values
Conditions ==
    UNION { [F -> ConditionValues] : F \in SUBSET Fields }

\* faulty variant: the operator name is copied without the prefix
OperatorKeyPlain(i) == i

\* '$' + i
OperatorKey(i) == "$" \o i

KnownOperators == {"gt", "gte", "lt", "lte", "ne", "in", "nin"}

\* faulty variant: operators the translator does not know are dropped
OperatorSetKnown(props) ==
    [k \in {OperatorKey(i) : i \in DOMAIN props \cap KnownOperators} |->
        props[CHOOSE i \in DOMAIN props : OperatorKey(i) = k]]

\* the loop `for (let i in conditions[field]) tmp['$' + i] = conditions[field][i]`
OperatorSet(props) ==
    [k \in {OperatorKey(i) : i \in DOMAIN props} |->
        props[CHOOSE i \in DOMAIN props : OperatorKey(i) = k]]

\* the test of the if: an object whose constructor is not named ObjectID or
\* ObjectId
IsStructured(value) ==
    value.t = "object" /\ value.ctor \notin {"ObjectID", "ObjectId"}

ConvertCondition(value) ==
    IF IsStructured(value)
    THEN Object("Object", "", OperatorSet(value.props))
    ELSE value

\* the loop reads conditions[field].constructor of a null value
ConvertThrows(conditions) ==
    \E field \in DOMAIN conditions : IsNull(conditions[field])

InitTranslate ==
    /\ InitPool
    /\ InitResolveIdle
    /\ InitLaterIdle
    /\ query \in Conditions
    /\ tpc = "start"
    /\ newQuery = <<>>

ConvertQueryToCriteria ==
    /\ tpc = "start"
    /\ IF ConvertThrows(query)
       THEN tpc' = "threw" /\ newQuery' = <<>>
       ELSE /\ tpc' = "returned"
            /\ newQuery' = [field \in DOMAIN query |-> ConvertCondition(query[field])]
    /\ UNCHANGED query
    /\ UNCHANGED nonTranslateVars

NextTranslate == ConvertQueryToCriteria

SpecTranslate == InitTranslate /\ [][NextTranslate]_vars

(***************************************************************************)
(* Properties of convertQueryToCriteria                                    *)
(***************************************************************************)
IsScalar(value) == value.t \in {"number", "string", "boolean"}

IsOperatorMapping(value) == value.t = "object" /\ value.ctor = "Object"

\* C18: the filter has exactly the fields of the conditions; a scalar value is
\* copied unchanged, and an operator mapping becomes a mapping with one entry
\* per operator, named '$' + operator, holding the same operand.
C18_FilterShape ==
    /\ (tpc # "start"
        /\ \A f \in DOMAIN query : IsScalar(query[f]) \/ IsOperatorMapping(query[f]))
       => tpc = "returned"
    /\ tpc = "returned"
       => /\ DOMAIN newQuery = DOMAIN query
          /\ \A f \in DOMAIN query :
                 /\ IsScalar(query[f]) => newQuery[f] = query[f]
                 /\ IsOperatorMapping(query[f])
                    => /\ IsOperatorMapping(newQuery[f])
                       /\ DOMAIN newQuery[f].props
                              = {"$" \o i : i \in DOMAIN query[f].props}
                       /\ \A i \in DOMAIN query[f].props :
                              newQuery[f].props["$" \o i] = query[f].props[i]

C18_Witness ==
    /\ tpc = "returned"
    /\ "age" \in DOMAIN query /\ "name" \in DOMAIN query
    /\ query["name"] = Value("string", "String", "bob")
    /\ newQuery["name"] = Value("string", "String", "bob")
    /\ DOMAIN query["age"].props = {"gt", "lt"}
    /\ newQuery["age"] =
           Object("Object", "", ("$gt" :> Value("number", "Number", "18"))
                                @@ ("$lt" :> Value("number", "Number", "65")))

\* C19: an ObjectID value is copied to the filter as an equality, and so is
\* every other value that is not an operator mapping, such as a Date or an
\* array: only an operator mapping is translated as a structured condition.
C19_OnlyOperatorMappingsStructured ==
    tpc = "returned"
    => \A f \in DOMAIN query :
           ~IsOperatorMapping(query[f]) => newQuery[f] = query[f]

\* C20: for a condition that is an operator mapping, whatever the names of
\* its operators, the translator raises no error and every operator is in the
\* filter, under '$' + its name, with its operand.
C20_OperatorsPassedThrough ==
    /\ (tpc # "start" /\ \A f \in DOMAIN query : IsOperatorMapping(query[f]))
       => tpc = "returned"
    /\ tpc = "returned"
       => \A f \in DOMAIN query :
              IsOperatorMapping(query[f])
              => \A i \in DOMAIN query[f].props :
                     /\ ("$" \o i) \in DOMAIN newQuery[f].props
                     /\ newQuery[f].props["$" \o i] = query[f].props[i]

C20_Witness ==
    /\ tpc = "returned"
    /\ \E f \in DOMAIN query :
           /\ DOMAIN query[f].props = {"foo", "$gt"}
           /\ DOMAIN newQuery[f].props = {"$foo", "$$gt"}
           /\ newQuery[f].props["$foo"] = Value("number", "Number", "1")

(***************************************************************************)
(* Part 4: the value codec of lib/mapper.js, convertModelValueToDbValue()  *)
(* and convertDbValueToModelValue(), over the values of Part 3.            *)
(***************************************************************************)
UndefinedValue == Value("undefined", "", "")

\* value instanceof Object, for the values of the model
InstanceOfObject(value) == value.t = "object" /\ ~IsNull(value)

\* the strings the driver's ObjectID constructor accepts: 12 bytes, or 24
\* hexadecimal characters
IsObjectIDString(str) ==
    \/ Len(str) = 12
    \/ Len(str) = 24 /\ \A i \in 1..24 : IsHexChar(SubSeq(str, i, i))

GeneratedHex == "6a00000000000000000000ff"

\* new ObjectID(value) raises for a string that is no identifier
NewObjectIDThrows(value) == value.t = "string" /\ ~IsObjectIDString(value.v)

\* new ObjectID(value): a missing value gives a generated identifier
NewObjectID(value) ==
    CASE value.t = "undefined" -> Object("ObjectID", GeneratedHex, <<>>)
      [] value.t = "string" -> Object("ObjectID", value.v, <<>>)
      [] OTHER -> Object("ObjectID", "time:" \o value.v, <<>>)

\* the ISO dates YYYY-MM-DD, the strings the model's Date constructor parses
IsIsoDate(str) ==
    /\ Len(str) = 10
    /\ \A i \in {1, 2, 3, 4, 6, 7, 9, 10} : IsDigit(SubSeq(str, i, i))
    /\ SubSeq(str, 5, 5) = "-"
    /\ SubSeq(str, 8, 8) = "-"
    /\ DigitsValue(SubSeq(str, 6, 7), 2) \in 1..12
    /\ DigitsValue(SubSeq(str, 9, 10), 2) \in 1..31

InvalidDate == Object("Date", "Invalid Date", <<>>)

\* new Date(value)
NewDate(value) ==
    CASE value.t = "string" /\ IsIsoDate(value.v) ->
             Object("Date", value.v \o "T00:00:00.000Z", <<>>)
      [] value.t = "number" -> Object("Date", "epoch+" \o value.v, <<>>)
      [] OTHER -> InvalidDate

\* faulty variant: no date prints as 'Invalid Date'
DateToStringBlank(date) == ""

\* date.toString()
DateToString(date) == date.v

IsDate(value) == value.t = "object" /\ value.ctor = "Date"
IsBinary(value) == value.t = "object" /\ value.ctor = "Binary"
IsBuffer(value) == value.t = "object" /\ value.ctor = "Buffer"

\* Buffer.from(value) raises unless value is a string, a buffer or an array
BufferFromThrows(value) ==
    ~(value.t = "string" \/ IsBuffer(value) \/ (value.t = "object" /\ value.ctor = "Array"))

BufferFrom(value) ==
    IF value.t = "string" THEN Object("Buffer", "utf8:" \o value.v, <<>>)
    ELSE Object("Buffer", value.v, value.props)

\* new Binary(buffer) raises unless buffer is missing, a string, a buffer or
\* an array
NewBinaryThrows(buffer) ==
    ~(buffer.t = "undefined" \/ buffer.t = "string" \/ IsBuffer(buffer)
      \/ (buffer.t = "object" /\ buffer.ctor = "Array"))

NewBinary(buffer) == Object("Binary", buffer.v, buffer.props)

\* the value of `value` when the binary case reaches new Binary(value)
BinaryArgument(value) ==
    IF ~IsBuffer(value) /\ ~BufferFromThrows(value) THEN BufferFrom(value) ELSE value

ConvertModelValueToDbValueThrows(type, value) ==
    CASE type = "objectid" ->
             ~InstanceOfObject(value) /\ ~IsNull(value) /\ NewObjectIDThrows(value)
      [] type = "binary" ->
             ~IsBinary(value) /\ ~IsNull(value) /\ NewBinaryThrows(BinaryArgument(value))
      [] OTHER -> FALSE

\* faulty variant: an identifier object is unwrapped instead of kept
ConvertModelValueToDbValueUnwraps(type, value) ==
    IF type = "objectid" /\ InstanceOfObject(value)
    THEN Value("string", "String", value.v)
    ELSE value

\* convertModelValueToDbValue(type, value): the binary case assigns the
\* wrapper to `value`, and `converted` is what is returned
ConvertModelValueToDbValue(type, value) ==
    CASE type = "objectid" ->
             IF ~InstanceOfObject(value) /\ ~IsNull(value)
             THEN NewObjectID(value)
             ELSE value
      [] type = "date" ->
             IF ~IsDate(value) /\ ~IsNull(value)
             THEN IF DateToString(NewDate(value)) = "Invalid Date"
                  THEN value
                  ELSE NewDate(value)
             ELSE value
      [] OTHER -> value

\* value.constructor.name === 'ObjectID'
IsObjectID(value) == value.t = "object" /\ value.ctor = "ObjectID"

\* convertDbValueToModelValue(type, value)
ConvertDbValueToModelValue(type, value) ==
    IF value.t = "undefined" \/ IsNull(value)
    THEN value
    ELSE CASE type = "objectid" /\ IsObjectID(value) ->
                  Value("string", "String", value.v)
           [] type = "date" /\ value.t = "string" ->
                  IF DateToString(NewDate(value)) = "Invalid Date"
                  THEN value
                  ELSE NewDate(value)
           [] type = "binary" /\ IsBinary(value) ->
                  Object("Buffer", value.v, value.props)
           [] OTHER -> value

(***************************************************************************)
(* Part 5 (specification SpecCriteria): mapCriteriaToDatabase() of         *)
(* lib/mapper.js.                                                          *)
(***************************************************************************)
MaxKeys == 2

Field(property, name, type) == [property |-> property, name |-> name, type |-> type]

\* metadata.fields of the entities of the model
MetadataFields ==
    { <<Field("name", "name", "string"), Field("address", "address", "object")>>,
      <<Field("title", "t", "string"), Field("meta", "m_data", "object")>>,
      <<Field("addr", "addr", "object")>>,
      <<Field("profile", "prof", "object"), Field("id", "_id", "objectid")>> }

CriteriaKeys ==
    {"name", "title", "id", "address", "address.city", "address.zip.code",
     "meta.x", "profile.age"}

CriteriaValues ==
    { Value("number", "Number", "1"),
      Value("string", "String", "x"),
      Value("string", "String", HexId1) }

Criterias ==
    UNION { [K -> CriteriaValues] :
              K \in {S \in SUBSET CriteriaKeys : Cardinality(S) <= MaxKeys} }

\* m.indexOf('.'), counted from 1; 0 when there is no dot
RECURSIVE IndexOfDot(_, _)
IndexOfDot(m, i) ==
    IF i > Len(m) THEN 0
    ELSE IF SubSeq(m, i, i) = "." THEN i ELSE IndexOfDot(m, i + 1)

\* m.substr(0, length)
Substr(m, length) == SubSeq(m, 1, IF length < Len(m) THEN length ELSE Len(m))

\* typeof object[key] !== 'undefined'
Defined(object, key) == key \in DOMAIN object /\ object[key].t # "undefined"

\* object[key] = value
Put(object, key, value) ==
    [k \in DOMAIN object \cup {key} |-> IF k = key THEN value ELSE object[k]]

\* the test of the inner loop on a key m of the criteria
MatchesObjectField(field, m) ==
    /\ IndexOfDot(m, 1) # 0
    /\ Substr(m, Len(field.name)) = field.name

\* the body of the loop over metadata.fields for one field
MapField(field, crit, acc) ==
    IF Defined(crit, field.property)
    THEN Put(acc, field.name, ConvertModelValueToDbValue(field.type, crit[field.property]))
    ELSE IF field.type = "object"
         THEN [k \in DOMAIN acc \cup {m \in DOMAIN crit : MatchesObjectField(field, m)} |->
                  IF k \in DOMAIN crit /\ MatchesObjectField(field, k)
                  THEN ConvertModelValueToDbValue(field.type, crit[k])
                  ELSE acc[k]]
         ELSE acc

RECURSIVE MapFields(_, _, _, _)
MapFields(fs, crit, i, acc) ==
    IF i > Len(fs) THEN acc ELSE MapFields(fs, crit, i + 1, MapField(fs[i], crit, acc))

MapCriteriaThrows(fs, crit) ==
    \E i \in 1..Len(fs) :
        /\ Defined(crit, fs[i].property)
        /\ ConvertModelValueToDbValueThrows(fs[i].type, crit[fs[i].property])

InitCriteria ==
    /\ InitPool
    /\ InitResolveIdle
    /\ InitTranslateIdle
    /\ InitClientIdle
    /\ InitCodecIdle
    /\ InitRelationsIdle
    /\ fields \in MetadataFields
    /\ criteria \in Criterias
    /\ mpc = "start"
    /\ dbCriteria = <<>>

MapCriteriaToDatabase ==
    /\ mpc = "start"
    /\ IF MapCriteriaThrows(fields, criteria)
       THEN mpc' = "threw" /\ dbCriteria' = <<>>
       ELSE mpc' = "returned" /\ dbCriteria' = MapFields(fields, criteria, 1, <<>>)
    /\ UNCHANGED <<fields, criteria>>
    /\ UNCHANGED nonCriteriaVars

NextCriteria == MapCriteriaToDatabase

SpecCriteria == InitCriteria /\ [][NextCriteria]_vars

(***************************************************************************)
(* Claims on mapCriteriaToDatabase                                         *)
(***************************************************************************)
FirstSegment(m) == SubSeq(m, 1, IndexOfDot(m, 1) - 1)

Suffix(m) == SubSeq(m, IndexOfDot(m, 1), Len(m))

\* the embedded-object fields a dotted criteria key belongs to
OwnersOf(m) ==
    {i \in 1..Len(fields) :
        fields[i].type = "object" /\ fields[i].property = FirstSegment(m)}

\* C21: a dotted criteria key whose first segment is the property of an
\* embedded-object field is in the result under the stored name of the field
\* followed by the suffix of the key, with its value, whether or not the
\* stored name is the property name; and a dotted key is in the result only
\* for a criteria key whose first segment is exactly such a field.
C21_DottedPathMapped ==
    mpc = "returned"
    => /\ \A m \in DOMAIN criteria :
              IndexOfDot(m, 1) # 0
              => \A i \in OwnersOf(m) :
                     /\ (fields[i].name \o Suffix(m)) \in DOMAIN dbCriteria
                     /\ dbCriteria[fields[i].name \o Suffix(m)] = criteria[m]
       /\ \A k \in DOMAIN dbCriteria :
              IndexOfDot(k, 1) # 0
              => \E m \in DOMAIN criteria :
                     /\ IndexOfDot(m, 1) # 0
                     /\ \E i \in OwnersOf(m) : k = fields[i].name \o Suffix(m)

(***************************************************************************)
(* Part 6 (specification SpecClient): the operations of lib/client.js on   *)
(* one collection: insert, update, remove (through removeOneBy), find,     *)
(* findByQuery and findBy.  Every operation is a chain of callbacks: the   *)
(* call, the callback of db.collection(), the callback of cursor.count()   *)
(* and the callback of the store call.                                     *)
(***************************************************************************)
MaxRows == 3
MaxSkip == 2

Null == [t |-> "null", n |-> 0, s |-> ""]

\* a sort object on the field age: 1 ascending, -1 descending
SortBy(direction) == [t |-> "object", n |-> direction, s |-> "age"]

\* the truth value of a JavaScript value
Truthy(value) ==
    CASE value.t \in {"undefined", "null", "nan"} -> FALSE
      [] value.t = "number" -> value.n # 0
      [] value.t = "string" -> value.s # ""
      [] value.t = "boolean" -> value.n = 1
      [] OTHER -> TRUE

HexOf(k) == "5f00000000000000000000a" \o NatToString(k)

NumberValue(n) == Value("number", "Number", NatToString(n))

StringValue(str) == Value("string", "String", str)

\* the k-th document of the collection
Document(k) ==
    [_id |-> Object("ObjectID", HexOf(k), <<>>),
     status |-> StringValue(IF k % 2 = 1 THEN "open" ELSE "closed"),
     age |-> NumberValue(10 + k),
     version |-> NumberValue(1)]

\* the collection holds its documents in an order that is not the order of age
StoreOrder(i) == IF i % 2 = 1 THEN i + 1 ELSE i - 1

Stores == {[i \in 1..n |-> Document(StoreOrder(i))] : n \in 0..MaxRows}

\* what a call of the operation's cb carries as its second argument
Result(kind, n, rows, total) == [kind |-> kind, n |-> n, rows |-> rows, total |-> total]

NullResult == Result("null", 0, <<>>, Null)

UndefinedResult == Result("undefined", 0, <<>>, Null)

NumberResult(n) == Result("number", n, <<>>, Null)

\* metadata.getIdFieldName()
IdFieldNames == {Undef, Str(""), Str("_id")}

\* the ids a caller passes: the id of a stored document as a string and as
\* an ObjectID, the id of no document, and a string that is no id
Ids ==
    { StringValue(HexOf(1)), Object("ObjectID", HexOf(1), <<>>),
      StringValue(HexOf(9)), StringValue("nope") }

Datas ==
    { [name |-> StringValue("bob")],
      [name |-> StringValue("bob"), version |-> NumberValue(0)],
      [name |-> StringValue("bob"), version |-> NumberValue(2)],
      [name |-> StringValue("bob"), version |-> NumberValue(3)] }

\* the data of updateBy: plain fields, a $set object with plain fields beside
\* it, and a $set object alone
UpdateDatas ==
    { [name |-> StringValue("bob")],
      ("$set" :> Object("Object", "", [status |-> StringValue("closed")]))
          @@ [name |-> StringValue("bob")],
      ("$set" :> Object("Object", "", [status |-> StringValue("closed")])) }

ClientConditions ==
    { <<>>, [status |-> StringValue("open")], [name |-> NullValue] }

NoArguments ==
    [idFieldName |-> Undef, versionProperty |-> "version", id |-> UndefinedValue,
     data |-> <<>>, conditions |-> <<>>, sort |-> Undef, skip |-> Undef,
     limit |-> Undef, countFoundRows |-> Bool(FALSE)]

Request(op, arguments) ==
    [a \in {"op"} \cup DOMAIN NoArguments |->
        IF a = "op" THEN op
        ELSE IF a \in DOMAIN arguments THEN arguments[a] ELSE NoArguments[a]]

Skips == {Num(n) : n \in 0..MaxSkip}

Requests ==
    {Request("insert", [idFieldName |-> f, data |-> d]) :
        f \in IdFieldNames, d \in Datas}
    \cup {Request("update", [idFieldName |-> f, id |-> i, data |-> d]) :
        f \in IdFieldNames, i \in Ids, d \in Datas}
    \cup {Request(op, [idFieldName |-> f, id |-> i]) :
        op \in {"remove", "find"}, f \in IdFieldNames, i \in Ids}
    \cup {Request("findByQuery",
              [conditions |-> c, sort |-> so, skip |-> sk, limit |-> l,
               countFoundRows |-> Bool(n)]) :
        c \in ClientConditions, so \in {Null, SortBy(1), SortBy(-1)},
        sk \in {Null} \cup Skips, l \in {Null} \cup Skips, n \in BOOLEAN}
    \cup {Request("findBy",
              [conditions |-> c, sort |-> so, skip |-> sk, limit |-> l]) :
        c \in ClientConditions \ {[name |-> NullValue]},
        so \in {Undef, Null, SortBy(1), SortBy(-1)},
        sk \in {Undef, Null, NaNV} \cup Skips,
        l \in {Undef, Null, NaNV} \cup Skips}
    \cup {Request("updateBy", [conditions |-> c, data |-> d]) :
        c \in ClientConditions \ {[name |-> NullValue]}, d \in UpdateDatas}
    \cup {Request("removeBy", [conditions |-> c]) :
        c \in ClientConditions \ {[name |-> NullValue]}}
    \cup {Request("findCountByQuery", [conditions |-> c]) : c \in ClientConditions}
    \cup {Request(op, NoArguments) : op \in {"drop", "rename"}}

(***************************************************************************)
(* The store: filters, cursors and the calls on a collection               *)
(***************************************************************************)
\* a document matches a filter of equalities
Matches(doc, filter) ==
    \A f \in DOMAIN filter : f \in DOMAIN doc /\ doc[f] = filter[f]

Matching(rows, filter) == SelectSeq(rows, LAMBDA doc : Matches(doc, filter))

NumberOf(value) == DigitsValue(value.v, Len(value.v))

\* rows with doc inserted at its place, by age, in the direction given
RECURSIVE InsertSorted(_, _, _)
InsertSorted(rows, doc, direction) ==
    IF rows = <<>> THEN <<doc>>
    ELSE IF (direction = 1 /\ NumberOf(doc.age) <= NumberOf(Head(rows).age))
            \/ (direction = -1 /\ NumberOf(doc.age) >= NumberOf(Head(rows).age))
         THEN <<doc>> \o rows
         ELSE <<Head(rows)>> \o InsertSorted(Tail(rows), doc, direction)

RECURSIVE SortRows(_, _)
SortRows(rows, direction) ==
    IF rows = <<>> THEN <<>>
    ELSE InsertSorted(SortRows(Tail(rows), direction), Head(rows), direction)

\* coll.find(filter): a cursor with no sort, skip or limit set
Find(filter) == [filter |-> filter, sort |-> Null, skip |-> Null, limit |-> Null]

NoCursor == Find(<<>>)

\* the skip and the limit of a cursor; a limit of 0 is no limit
EffectiveSkip(c) == IF c.skip.t = "number" THEN c.skip.n ELSE 0

EffectiveLimit(c) == IF c.limit.t = "number" THEN c.limit.n ELSE 0

Paged(rows, c) ==
    LET skipped == SubSeq(rows, EffectiveSkip(c) + 1, Len(rows))
    IN  IF EffectiveLimit(c) = 0 \/ EffectiveLimit(c) >= Len(skipped)
        THEN skipped
        ELSE SubSeq(skipped, 1, EffectiveLimit(c))

\* cursor.toArray(): the page of the cursor
ToArray(rows, c) ==
    Paged(IF c.sort.t = "object"
          THEN SortRows(Matching(rows, c.filter), c.sort.n)
          ELSE Matching(rows, c.filter), c)

\* cursor.count(callback): the driver counts with applySkipLimit = true,
\* under the skip and the limit the cursor holds when count is called
Count(rows, c) == Len(Paged(Matching(rows, c.filter), c))

\* a call made on the collection
StoreCall(method, filter, doc, c) ==
    [method |-> method, filter |-> filter, doc |-> doc, cursor |-> c]

\* the index of the first document matching the filter, 0 when there is none
FirstMatch(rows, filter) ==
    IF \E i \in 1..Len(rows) : Matches(rows[i], filter)
    THEN CHOOSE i \in 1..Len(rows) :
             /\ Matches(rows[i], filter)
             /\ \A j \in 1..(i - 1) : ~Matches(rows[j], filter)
    ELSE 0

Without(rows, i) == SubSeq(rows, 1, i - 1) \o SubSeq(rows, i + 1, Len(rows))

\* object with the fields of update laid over it
Merge(object, update) ==
    [f \in DOMAIN object \cup DOMAIN update |->
        IF f \in DOMAIN update THEN update[f] ELSE object[f]]

(***************************************************************************)
(* The operations                                                          *)
(***************************************************************************)
\* !idFieldName || idFieldName.length === 0
MissingIdField(idFieldName) == ~Truthy(idFieldName) \/ Len(idFieldName.s) = 0

MissingIdError == "Could not find the Bass ID Field"

\* cb(err, result)
Callback(err, result) == Append(cbCalls, [err |-> err, result |-> result])

\* the cond object of update, remove and find
Cond(idFieldName, id) == [f \in {idFieldName.s} |-> id]

\* new ObjectID(id) of update and of remove: an ObjectID is returned as it is
WrapId(id) == IF IsObjectID(id) THEN id ELSE NewObjectID(id)

\* faulty variant: the version condition is the version of data itself
UpdateCondSameVersion(req) ==
    LET cond == Cond(req.idFieldName, WrapId(req.id))
    IN  IF req.versionProperty \in DOMAIN req.data
           /\ NumberOf(req.data[req.versionProperty]) # 0
        THEN Merge(cond, [f \in {req.versionProperty} |-> req.data[req.versionProperty]])
        ELSE cond

\* update: cond, with the version condition when data carries a version
UpdateCond(req) ==
    LET cond == Cond(req.idFieldName, WrapId(req.id))
    IN  IF req.versionProperty \in DOMAIN req.data
           /\ NumberOf(req.data[req.versionProperty]) # 0
        THEN Merge(cond, [f \in {req.versionProperty} |->
                            NumberValue(NumberOf(req.data[req.versionProperty]) - 1)])
        ELSE cond

\* remove: id = new ObjectID(id) for a string
RemoveCond(req) ==
    Cond(req.idFieldName, IF req.id.t = "string" THEN WrapId(req.id) ELSE req.id)

\* the filter convertQueryToCriteria returns
Criteria(conditions) == [f \in DOMAIN conditions |-> ConvertCondition(conditions[f])]

\* new QueryResult(query): totalRows as the constructor left it
NewQueryResult == [data |-> <<>>, totalRows |-> Null]

\* query.getCountFoundRows()
CountRequestedAlways(req) == TRUE

CountRequested(req) == Truthy(req.countFoundRows)

\* faulty variant: the skip and the limit are applied with the sort, before
\* the count
FindByQueryCursorPaged(req) ==
    LET c == Find(Criteria(req.conditions))
        sorted == IF req.sort # Null THEN [c EXCEPT !.sort = req.sort] ELSE c
        skipped == IF req.skip # Null THEN [sorted EXCEPT !.skip = req.skip] ELSE sorted
    IN  IF req.limit # Null THEN [skipped EXCEPT !.limit = req.limit] ELSE skipped

\* findByQuery: the cursor after coll.find() and the sort
FindByQueryCursor(req) ==
    LET c == Find(Criteria(req.conditions))
    IN  IF req.sort # Null THEN [c EXCEPT !.sort = req.sort] ELSE c

\* faulty variant: the limit is not applied
FinishNoLimit(c, req) ==
    IF req.skip # Null THEN [c EXCEPT !.skip = req.skip] ELSE c

\* findByQuery: finish() applies the skip and the limit
Finish(c, req) ==
    LET skipped == IF req.skip # Null THEN [c EXCEPT !.skip = req.skip] ELSE c
    IN  IF req.limit # Null THEN [skipped EXCEPT !.limit = req.limit] ELSE skipped

\* findBy: the cursor after coll.find(), sort, skip and limit
FindByCursor(req) ==
    LET c == Find(req.conditions)
        sorted == IF Truthy(req.sort) THEN [c EXCEPT !.sort = req.sort] ELSE c
        skipped == IF Truthy(req.skip) /\ ~IsNaN(req.skip)
                   THEN [sorted EXCEPT !.skip = req.skip] ELSE sorted
    IN  IF Truthy(req.limit) /\ ~IsNaN(req.limit)
        THEN [skipped EXCEPT !.limit = req.limit] ELSE skipped

\* m[0] === '$'
IsOperatorName(m) == Len(m) > 0 /\ SubSeq(m, 1, 1) = "$"

\* updateBy: the fields of the $set object after the loop over the keys of
\* Object.create(data). $set is the object data holds under '$set' when there
\* is one, otherwise a new one; every key of data that is no operator name is
\* written into it.
UpdateBySet(object) ==
    LET given == IF "$set" \in DOMAIN object /\ ~IsNull(object["$set"])
                 THEN object["$set"].props ELSE <<>>
        plain == {m \in DOMAIN object : ~IsOperatorName(m)}
    IN  Merge(given, [m \in plain |-> object[m]])

\* updateBy: the update object passed to coll.updateMany. The delete on the
\* created object removes nothing of what it inherits, so the loop copies
\* every operator key, '$set' included; '$set' is then set when it has fields.
UpdateByUpdate(object) ==
    LET operators == [m \in {k \in DOMAIN object : IsOperatorName(k)} |-> object[m]]
    IN  IF DOMAIN UpdateBySet(object) # {}
        THEN Merge(operators,
                   [m \in {"$set"} |-> Object("Object", "", UpdateBySet(object))])
        ELSE operators

\* updateBy: the object of the caller after the call. The $set object it holds
\* is the one the loop has written into.
UpdateByCallerData(object) ==
    IF "$set" \in DOMAIN object /\ ~IsNull(object["$set"])
    THEN [object EXCEPT !["$set"] = Object("Object", "", UpdateBySet(object))]
    ELSE object

\* the documents of rows, those matching the filter with the fields of set
\* laid over them
UpdateMany(rows, filter, set) ==
    [d \in 1..Len(rows) |->
        IF Matches(rows[d], filter) THEN Merge(rows[d], set) ELSE rows[d]]

\* result.modifiedCount
ModifiedCount(rows, filter, set) ==
    Cardinality({d \in 1..Len(rows) : UpdateMany(rows, filter, set)[d] # rows[d]})

\* data && data.deletedCount || 0, for the value a callback received
DeletedCountOrZero(value) == IF value.kind = "deleteResult" THEN value.n ELSE 0

InitClient ==
    /\ InitPool
    /\ InitResolveIdle
    /\ InitTranslateIdle
    /\ InitCriteriaIdle
    /\ InitCodecIdle
    /\ InitRelationsIdle
    /\ request \in Requests
    /\ store \in Stores
    /\ kpc = "start"
    /\ cursor = NoCursor
    /\ storeCalls = <<>>
    /\ cbCalls = <<>>
    /\ queryResult = NewQueryResult

\* the synchronous part of the operation, up to db.collection()
ClientCall ==
    /\ kpc = "start"
    /\ CASE request.op \in {"update", "remove", "find"}
               /\ MissingIdField(request.idFieldName) ->
                 /\ cbCalls' = Callback(MissingIdError, UndefinedResult)
                 /\ kpc' = "done"
         [] request.op = "remove" /\ ~MissingIdField(request.idFieldName)
               /\ request.id.t = "string" /\ NewObjectIDThrows(request.id) ->
                 /\ kpc' = "threw"
                 /\ UNCHANGED cbCalls
         [] request.op \in {"findByQuery", "findCountByQuery"}
               /\ ConvertThrows(request.conditions) ->
                 /\ kpc' = "threw"
                 /\ UNCHANGED cbCalls
         [] OTHER ->
                 /\ kpc' = "collection"
                 /\ UNCHANGED cbCalls
    /\ UNCHANGED <<request, store, cursor, storeCalls, queryResult>>
    /\ UNCHANGED nonClientVars

\* the callback of db.collection(collection, (err, coll) => ...)
CollectionCallback(err) ==
    /\ kpc = "collection"
    /\ CASE request.op = "insert" ->
                 IF err # ""
                 THEN /\ cbCalls' = Callback(err, NullResult)
                      /\ kpc' = "done"
                      /\ UNCHANGED <<storeCalls, cursor>>
                 ELSE /\ storeCalls' = Append(storeCalls,
                             StoreCall("insert", <<>>, request.data, NoCursor))
                      /\ kpc' = "store"
                      /\ UNCHANGED <<cbCalls, cursor>>
         [] request.op = "update" ->
                 IF err # ""
                 THEN /\ cbCalls' = Callback(err, NullResult)
                      /\ kpc' = "done"
                      /\ UNCHANGED <<storeCalls, cursor>>
                 ELSE IF NewObjectIDThrows(request.id)
                 THEN /\ kpc' = "threw"
                      /\ UNCHANGED <<cbCalls, storeCalls, cursor>>
                 ELSE /\ storeCalls' = Append(storeCalls,
                             StoreCall("updateOne", UpdateCond(request), request.data, NoCursor))
                      /\ kpc' = "store"
                      /\ UNCHANGED <<cbCalls, cursor>>
         [] request.op = "remove" ->
                 IF err # ""
                 THEN /\ cbCalls' = Callback(err, NumberResult(DeletedCountOrZero(NumberResult(0))))
                      /\ kpc' = "done"
                      /\ UNCHANGED <<storeCalls, cursor>>
                 ELSE /\ storeCalls' = Append(storeCalls,
                             StoreCall("deleteOne", RemoveCond(request), <<>>, NoCursor))
                      /\ kpc' = "store"
                      /\ UNCHANGED <<cbCalls, cursor>>
         [] request.op = "find" ->
                 IF err # ""
                 THEN /\ kpc' = "threw"
                      /\ UNCHANGED <<cbCalls, storeCalls, cursor>>
                 ELSE /\ storeCalls' = Append(storeCalls,
                             StoreCall("findOne", Cond(request.idFieldName, request.id),
                                       <<>>, NoCursor))
                      /\ kpc' = "store"
                      /\ UNCHANGED <<cbCalls, cursor>>
         [] request.op = "findByQuery" ->
                 IF err # ""
                 THEN /\ kpc' = "threw"
                      /\ UNCHANGED <<cbCalls, storeCalls, cursor>>
                 ELSE IF CountRequested(request)
                 THEN /\ cursor' = FindByQueryCursor(request)
                      /\ storeCalls' = Append(storeCalls,
                             StoreCall("count", cursor'.filter, <<>>, cursor'))
                      /\ kpc' = "count"
                      /\ UNCHANGED cbCalls
                 ELSE /\ cursor' = Finish(FindByQueryCursor(request), request)
                      /\ storeCalls' = Append(storeCalls,
                             StoreCall("toArray", cursor'.filter, <<>>, cursor'))
                      /\ kpc' = "store"
                      /\ UNCHANGED cbCalls
         [] request.op = "findBy" ->
                 IF err # ""
                 THEN /\ cbCalls' = Callback(err, NullResult)
                      /\ kpc' = "done"
                      /\ UNCHANGED <<storeCalls, cursor>>
                 ELSE /\ cursor' = FindByCursor(request)
                      /\ storeCalls' = Append(storeCalls,
                             StoreCall("toArray", cursor'.filter, <<>>, cursor'))
                      /\ kpc' = "store"
                      /\ UNCHANGED cbCalls
         [] request.op = "updateBy" ->
                 IF err # ""
                 THEN /\ cbCalls' = Callback(err, NumberResult(0))
                      /\ kpc' = "done"
                      /\ UNCHANGED <<storeCalls, cursor>>
                 ELSE /\ storeCalls' = Append(storeCalls,
                             StoreCall("updateMany", request.conditions,
                                       UpdateByUpdate(request.data), NoCursor))
                      /\ kpc' = "store"
                      /\ UNCHANGED <<cbCalls, cursor>>
         [] request.op = "removeBy" ->
                 IF err # ""
                 THEN /\ cbCalls' = Callback(err, NumberResult(0))
                      /\ kpc' = "done"
                      /\ UNCHANGED <<storeCalls, cursor>>
                 ELSE /\ storeCalls' = Append(storeCalls,
                             StoreCall("deleteMany", request.conditions, <<>>, NoCursor))
                      /\ kpc' = "store"
                      /\ UNCHANGED <<cbCalls, cursor>>
         [] request.op = "findCountByQuery" ->
                 IF err # ""
                 THEN /\ kpc' = "threw"
                      /\ UNCHANGED <<cbCalls, storeCalls, cursor>>
                 ELSE /\ cursor' = Find(Criteria(request.conditions))
                      /\ storeCalls' = Append(storeCalls,
                             StoreCall("count", cursor'.filter, <<>>, cursor'))
                      /\ kpc' = "store"
                      /\ UNCHANGED cbCalls
         [] request.op = "drop" ->
                 IF err # ""
                 THEN /\ cbCalls' = Callback(err, UndefinedResult)
                      /\ kpc' = "done"
                      /\ UNCHANGED <<storeCalls, cursor>>
                 ELSE /\ storeCalls' = Append(storeCalls,
                             StoreCall("drop", <<>>, <<>>, NoCursor))
                      /\ kpc' = "store"
                      /\ UNCHANGED <<cbCalls, cursor>>
         [] request.op = "rename" ->
                 IF err # ""
                 THEN /\ kpc' = "threw"
                      /\ UNCHANGED <<cbCalls, storeCalls, cursor>>
                 ELSE /\ storeCalls' = Append(storeCalls,
                             StoreCall("rename", <<>>, <<>>, NoCursor))
                      /\ kpc' = "store"
                      /\ UNCHANGED <<cbCalls, cursor>>
    \* the data object is the caller's: what updateBy writes into the $set
    \* object it holds is written into the caller's object
    /\ request' = IF request.op = "updateBy" /\ err = ""
                  THEN [request EXCEPT !.data = UpdateByCallerData(request.data)]
                  ELSE request
    /\ UNCHANGED <<store, queryResult>>
    /\ UNCHANGED nonClientVars

CollectionFails == CollectionCallback("collection failed")

CollectionReturns == CollectionCallback("")

\* faulty variant: a failing count is reported and the page is fetched all
\* the same
CountCallbackProceeds(err) ==
    /\ kpc = "count"
    /\ cbCalls' = IF err # "" THEN Callback(err, NullResult) ELSE cbCalls
    /\ queryResult' = IF err # "" THEN queryResult
                      ELSE [queryResult EXCEPT !.totalRows = Num(Count(store, cursor))]
    /\ cursor' = Finish(cursor, request)
    /\ storeCalls' = Append(storeCalls,
           StoreCall("toArray", cursor'.filter, <<>>, cursor'))
    /\ kpc' = "store"
    /\ UNCHANGED <<request, store>>
    /\ UNCHANGED nonClientVars

\* the callback of cursor.count((err, count) => ...)
CountCallback(err) ==
    /\ kpc = "count"
    /\ IF err # ""
       THEN /\ cbCalls' = Callback(err, NullResult)
            /\ kpc' = "done"
            /\ UNCHANGED <<cursor, storeCalls, queryResult>>
       ELSE /\ queryResult' = [queryResult EXCEPT !.totalRows = Num(Count(store, cursor))]
            /\ cursor' = Finish(cursor, request)
            /\ storeCalls' = Append(storeCalls,
                   StoreCall("toArray", cursor'.filter, <<>>, cursor'))
            /\ kpc' = "store"
            /\ UNCHANGED cbCalls
    /\ UNCHANGED <<request, store>>
    /\ UNCHANGED nonClientVars

CountFails == CountCallback("count failed")

CountReturns == CountCallback("")

\* the callback of the store call: coll.insert, coll.updateOne,
\* coll.deleteOne (whose callback in removeOneBy calls the one of remove),
\* coll.findOne, cursor.toArray, coll.updateMany, coll.deleteMany,
\* cursor.count of findCountByQuery, coll.drop and coll.rename
StoreCallback(err) ==
    /\ kpc = "store"
    /\ kpc' = "done"
    /\ LET call == storeCalls[Len(storeCalls)]
           found == FirstMatch(store, call.filter)
       IN CASE request.op = "insert" ->
                 IF err # ""
                 THEN /\ cbCalls' = Callback(err, NullResult)
                      /\ UNCHANGED <<store, queryResult>>
                 ELSE /\ store' = Append(store,
                             Merge([_id |-> Object("ObjectID", GeneratedHex, <<>>)], call.doc))
                      /\ cbCalls' = Callback("", Result("data", 0, <<call.doc>>, Null))
                      /\ UNCHANGED queryResult
            [] request.op = "update" ->
                 IF err # ""
                 THEN /\ cbCalls' = Callback(err, UndefinedResult)
                      /\ UNCHANGED <<store, queryResult>>
                 ELSE /\ store' = IF found = 0 THEN store
                                  ELSE [store EXCEPT ![found] = Merge(store[found], call.doc)]
                      /\ cbCalls' = Callback("",
                             Result("updateResult", IF found = 0 THEN 0 ELSE 1, <<>>, Null))
                      /\ UNCHANGED queryResult
            [] request.op = "remove" ->
                 IF err # ""
                 THEN /\ cbCalls' = Callback(err,
                             NumberResult(DeletedCountOrZero(
                                 NumberResult(DeletedCountOrZero(UndefinedResult)))))
                      /\ UNCHANGED <<store, queryResult>>
                 ELSE /\ store' = IF found = 0 THEN store ELSE Without(store, found)
                      /\ cbCalls' = Callback("",
                             NumberResult(DeletedCountOrZero(
                                 NumberResult(DeletedCountOrZero(
                                     Result("deleteResult", IF found = 0 THEN 0 ELSE 1,
                                            <<>>, Null))))))
                      /\ UNCHANGED queryResult
            [] request.op = "find" ->
                 /\ cbCalls' = Callback(err,
                        IF err # "" THEN UndefinedResult
                        ELSE IF found = 0 THEN NullResult
                        ELSE Result("item", 0, <<store[found]>>, Null))
                 /\ UNCHANGED <<store, queryResult>>
            [] request.op = "findByQuery" ->
                 /\ queryResult' = [queryResult EXCEPT
                        !.data = IF err # "" THEN <<>> ELSE ToArray(store, call.cursor)]
                 /\ cbCalls' = Callback(err,
                        Result("queryResult", 0, queryResult'.data, queryResult'.totalRows))
                 /\ UNCHANGED store
            [] request.op = "findBy" ->
                 /\ cbCalls' = Callback(err,
                        IF err # "" THEN UndefinedResult
                        ELSE Result("items", 0, ToArray(store, call.cursor), Null))
                 /\ UNCHANGED <<store, queryResult>>
            [] request.op = "updateBy" ->
                 LET set == IF "$set" \in DOMAIN call.doc
                            THEN call.doc["$set"].props ELSE <<>>
                 IN  IF err # ""
                     THEN /\ cbCalls' = Callback(err, NumberResult(0))
                          /\ UNCHANGED <<store, queryResult>>
                     ELSE /\ store' = UpdateMany(store, call.filter, set)
                          /\ cbCalls' = Callback("",
                                 NumberResult(ModifiedCount(store, call.filter, set)))
                          /\ UNCHANGED queryResult
            [] request.op = "removeBy" ->
                 IF err # ""
                 THEN /\ cbCalls' = Callback(err,
                             NumberResult(DeletedCountOrZero(UndefinedResult)))
                      /\ UNCHANGED <<store, queryResult>>
                 ELSE /\ store' = SelectSeq(store, LAMBDA doc : ~Matches(doc, call.filter))
                      /\ cbCalls' = Callback("",
                             NumberResult(DeletedCountOrZero(
                                 Result("deleteResult",
                                        Len(Matching(store, call.filter)), <<>>, Null))))
                      /\ UNCHANGED queryResult
            [] request.op = "findCountByQuery" ->
                 /\ cbCalls' = Callback(err,
                        IF err # "" THEN UndefinedResult
                        ELSE NumberResult(Count(store, call.cursor)))
                 /\ UNCHANGED <<store, queryResult>>
            [] request.op = "drop" ->
                 /\ store' = IF err # "" THEN store ELSE <<>>
                 /\ cbCalls' = Callback(err,
                        IF err # "" THEN UndefinedResult
                        ELSE Result("boolean", 1, <<>>, Null))
                 /\ UNCHANGED queryResult
            [] request.op = "rename" ->
                 /\ cbCalls' = Callback(err,
                        IF err # "" THEN UndefinedResult
                        ELSE Result("collection", 0, <<>>, Null))
                 /\ UNCHANGED <<store, queryResult>>
    /\ UNCHANGED <<request, cursor, storeCalls>>
    /\ UNCHANGED nonClientVars

StoreFails == StoreCallback("store failed")

StoreReturns == StoreCallback("")

NextClient ==
    \/ ClientCall
    \/ CollectionFails
    \/ CollectionReturns
    \/ CountFails
    \/ CountReturns
    \/ StoreFails
    \/ StoreReturns

SpecClient == InitClient /\ [][NextClient]_vars

(***************************************************************************)
(* Claims on the client operations                                         *)
(***************************************************************************)
LastCallback == cbCalls[Len(cbCalls)]

\* the rows of the collection matching the conditions of the request
AllMatching == Matching(store, Criteria(request.conditions))

\* C22: in findByQuery with the count-flag set, the total attached to the
\* result is the number of all the rows matching the filter, whatever the
\* skip and the limit of the page.
C22_TotalIgnoresPage ==
    (request.op = "findByQuery" /\ CountRequested(request)
        /\ kpc = "done" /\ LastCallback.err = "")
    => /\ LastCallback.result.kind = "queryResult"
       /\ LastCallback.result.total = Num(Len(AllMatching))

C22_Witness ==
    /\ request.op = "findByQuery"
    /\ CountRequested(request)
    /\ request.skip = Num(1)
    /\ request.limit = Num(1)
    /\ kpc = "done"
    /\ LastCallback.err = ""
    /\ Len(LastCallback.result.rows) = 1
    /\ LastCallback.result.total = Num(3)

\* C23: in findByQuery a count is issued on the store if and only if the
\* count-flag of the query is set; with the flag unset the only call on the
\* collection is the fetch of the page, and the result holds no total.
C23_CountOnlyOnDemand ==
    (request.op = "findByQuery" /\ kpc \in {"count", "store", "done"})
    => /\ (\E i \in 1..Len(storeCalls) : storeCalls[i].method = "count")
              <=> Truthy(request.countFoundRows)
       /\ ~Truthy(request.countFoundRows)
              => /\ Len(storeCalls) = 1
                 /\ storeCalls[1].method = "toArray"
                 /\ queryResult.totalRows = NewQueryResult.totalRows
                 /\ kpc = "done" => LastCallback.result.total = NewQueryResult.totalRows

C23_Witness ==
    /\ request.op = "findByQuery"
    /\ ~Truthy(request.countFoundRows)
    /\ kpc = "done"
    /\ Len(storeCalls) = 1
    /\ Len(LastCallback.result.rows) = 2
    /\ LastCallback.result.total = Null

\* a skip or a limit is present when it is a number, a sort when it is an
\* object
PresentNumber(value) == value.t = "number"

PresentSort(value) == value.t = "object"

\* C24: in findByQuery and findBy the cursor whose page is fetched has a
\* sort, a skip or a limit set only when the request holds that value, and
\* then that value; with no skip or no limit in the request the page is not
\* restricted by it; and a sort, a skip and a limit of the request are all
\* in force on the cursor when the page is fetched.
C24_PagingApplied ==
    \A i \in 1..Len(storeCalls) :
        storeCalls[i].method = "toArray"
        => LET c == storeCalls[i].cursor
           IN  /\ c.sort # Null => (PresentSort(request.sort) /\ c.sort = request.sort)
               /\ c.skip # Null => (PresentNumber(request.skip) /\ c.skip = request.skip)
               /\ c.limit # Null => (PresentNumber(request.limit) /\ c.limit = request.limit)
               /\ ~PresentNumber(request.skip) => EffectiveSkip(c) = 0
               /\ ~PresentNumber(request.limit) => EffectiveLimit(c) = 0
               /\ PresentSort(request.sort) => c.sort = request.sort
               /\ PresentNumber(request.skip) => EffectiveSkip(c) = request.skip.n
               /\ PresentNumber(request.limit) => EffectiveLimit(c) = request.limit.n

C24_Witness ==
    /\ request.op = "findByQuery"
    /\ request.sort = SortBy(-1)
    /\ request.skip = Num(1)
    /\ request.limit = Num(1)
    /\ kpc = "done"
    /\ storeCalls[Len(storeCalls)].cursor =
           [filter |-> <<>>, sort |-> SortBy(-1), skip |-> Num(1), limit |-> Num(1)]
    /\ LastCallback.result.rows = <<Document(2)>>

\* C25: with no identifier field declared on the metadata, insert, update,
\* remove and find make no call on the store and, once the operation has
\* run, its callback has been called once, with the error of the missing
\* identifier field.
C25_MissingIdFieldFails ==
    (request.op \in {"insert", "update", "remove", "find"}
        /\ MissingIdField(request.idFieldName))
    => /\ storeCalls = <<>>
       /\ kpc \in {"store", "done"}
              => (Len(cbCalls) = 1 /\ cbCalls[1].err = MissingIdError)

\* C30: when remove succeeds, the number its callback receives is the number
\* of documents the store removed: 1 when a document had the id, 0 when none.
C30_RemoveReportsCount ==
    [][(request.op = "remove" /\ kpc = "store" /\ kpc' = "done"
            /\ cbCalls'[Len(cbCalls')].err = "")
        => cbCalls'[Len(cbCalls')].result.n = Len(store) - Len(store')]_vars

(***************************************************************************)
(* Part 7 (specification SpecCodec): the value codec of Part 4 applied to  *)
(* a value, and again to what it returned, in either direction.            *)
(***************************************************************************)
MaxConversions == 3

Types == {"objectid", "date", "binary", "string"}

CodecValues ==
    { UndefinedValue, NullValue,
      StringValue(HexId1), Object("ObjectID", HexId1, <<>>),
      StringValue("2020-02-03"), StringValue("2020-13-45"), StringValue("not a date"),
      Object("Date", "2020-02-03T00:00:00.000Z", <<>>),
      Object("Buffer", "bytes", <<>>), Object("Binary", "bytes", <<>>),
      NumberValue(5) }

\* the value the next conversion is applied to
CurrentValue ==
    IF codecLog = <<>> THEN codecValue ELSE codecLog[Len(codecLog)].converted

Conversion(direction, value, converted, threw) ==
    [direction |-> direction, value |-> value, converted |-> converted, threw |-> threw]

InitCodec ==
    /\ InitPool
    /\ InitResolveIdle
    /\ InitTranslateIdle
    /\ InitCriteriaIdle
    /\ InitClientIdle
    /\ InitRelationsIdle
    /\ codecType \in Types
    /\ codecValue \in CodecValues
    /\ codecLog = <<>>

CanConvert ==
    /\ Len(codecLog) < MaxConversions
    /\ codecLog # <<>> => ~codecLog[Len(codecLog)].threw

\* mapper.convertModelValueToDbValue(codecType, value)
ToStore ==
    /\ CanConvert
    /\ codecLog' = Append(codecLog,
           IF ConvertModelValueToDbValueThrows(codecType, CurrentValue)
           THEN Conversion("toStore", CurrentValue, CurrentValue, TRUE)
           ELSE Conversion("toStore", CurrentValue,
                           ConvertModelValueToDbValue(codecType, CurrentValue), FALSE))
    /\ UNCHANGED <<codecType, codecValue>>
    /\ UNCHANGED nonCodecVars

\* mapper.convertDbValueToModelValue(codecType, value)
ToDomain ==
    /\ CanConvert
    /\ codecLog' = Append(codecLog,
           Conversion("toDomain", CurrentValue,
                      ConvertDbValueToModelValue(codecType, CurrentValue), FALSE))
    /\ UNCHANGED <<codecType, codecValue>>
    /\ UNCHANGED nonCodecVars

NextCodec == ToStore \/ ToDomain

SpecCodec == InitCodec /\ [][NextCodec]_vars

(***************************************************************************)
(* Claims on the value codec                                               *)
(***************************************************************************)
\* the values a field of the type holds: raw, converted, or absent
TypedValues(type) ==
    {UndefinedValue, NullValue}
    \cup CASE type = "objectid" -> {StringValue(HexId1), Object("ObjectID", HexId1, <<>>)}
           [] type = "date" -> {StringValue("2020-02-03"), StringValue("2020-13-45"),
                                StringValue("not a date"),
                                Object("Date", "2020-02-03T00:00:00.000Z", <<>>)}
           [] type = "binary" -> {Object("Buffer", "bytes", <<>>),
                                  Object("Binary", "bytes", <<>>)}
           [] OTHER -> {StringValue("not a date")}

\* an identifier object, a timestamp or a binary wrapper
IsWrapped(value) == IsObjectID(value) \/ IsDate(value) \/ IsBinary(value)

C27_BinaryRoundTrip ==
    codecType = "binary"
    => /\ \A i \in 1..Len(codecLog) :
              (codecLog[i].direction = "toStore" /\ IsBuffer(codecLog[i].value))
              => /\ ~codecLog[i].threw
                 /\ codecLog[i].converted = NewBinary(codecLog[i].value)
       /\ \A i \in 1..(Len(codecLog) - 1) :
              (codecLog[i].direction = "toStore" /\ IsBuffer(codecLog[i].value)
                  /\ codecLog[i + 1].direction = "toDomain")
              => codecLog[i + 1].converted = codecLog[i].value

\* C28: for the date type, toStore and toDomain return a timestamp for a
\* string that parses, and for a string that does not parse they return the
\* string itself; neither raises.
C28_DateParsedOrKept ==
    codecType = "date"
    => \A i \in 1..Len(codecLog) :
           codecLog[i].value.t = "string"
           => /\ ~codecLog[i].threw
              /\ IF IsIsoDate(codecLog[i].value.v)
                 THEN /\ IsDate(codecLog[i].converted)
                      /\ codecLog[i].converted # InvalidDate
                      /\ SubSeq(codecLog[i].converted.v, 1, 10) = codecLog[i].value.v
                 ELSE codecLog[i].converted = codecLog[i].value

C28_Witness ==
    /\ codecType = "date"
    /\ codecValue = StringValue("2020-13-45")
    /\ Len(codecLog) = 2
    /\ codecLog[1].direction = "toStore"
    /\ codecLog[2].direction = "toDomain"
    /\ codecLog[2].converted = codecValue

(***************************************************************************)
(* Part 8 (specification SpecRelations): convertModelRelationsToData() and *)
(* mapPartialRelationsToModel() of lib/mapper.js, the second applied to    *)
(* the data the first has written.                                         *)
(***************************************************************************)
MaxItems == 2

\* what a relation field of a model holds: nothing, null, a related model
\* with its id, or a list of related models
Held(kind, id, list) == [kind |-> kind, id |-> id, list |-> list]

NotHeld == Held("undefined", UndefinedValue, <<>>)

HeldNull == Held("null", NullValue, <<>>)

Related(id) == Held("model", id, <<>>)

RelatedList(list) == Held("list", UndefinedValue, list)

\* a relation of metadata.relations; the one-to-one relations are stored
\* under relation.column, the one-to-many under relation.field
RelationTo(field, column, document) ==
    [field |-> field, column |-> column, document |-> document]

OneToOne ==
    <<RelationTo("customer", "customer_ref", "Customer"),
      RelationTo("shipper", "shipper", "Shipper")>>

OneToMany == <<RelationTo("items", "items", "Item")>>

\* registry.getMetadataByName(document).collection
CollectionOf(document) ==
    CASE document = "Customer" -> "customers"
      [] document = "Shipper" -> "shippers"
      [] OTHER -> "items"

RelatedIds == {StringValue(HexOf(1)), Object("ObjectID", HexOf(2), <<>>)}

RelatedLists ==
    UNION {[1..n -> {Related(id) : id \in RelatedIds}] : n \in 0..MaxItems}

RelModels ==
    [customer : {NotHeld, HeldNull, Related(UndefinedValue)}
                    \cup {Related(id) : id \in RelatedIds},
     shipper : {NotHeld, Related(StringValue(HexOf(3)))},
     items : {NotHeld} \cup {RelatedList(l) : l \in RelatedLists}]

\* new DBRef(namespace, oid)
DBRef(namespace, oid) == [namespace |-> namespace, oid |-> oid]

\* faulty variant: the name of the collection is read instead of the id
OidOfNamespace(ref) == StringValue(ref.namespace)

\* el.oid
OidOf(ref) == ref.oid

\* the one-to-one loop of convertModelRelationsToData
RECURSIVE WriteOneToOne(_, _, _)
WriteOneToOne(model, dataObject, i) ==
    IF i > Len(OneToOne) THEN dataObject
    ELSE LET relation == OneToOne[i]
             held == model[relation.field]
         IN  WriteOneToOne(model,
                 IF held.kind \notin {"undefined", "null"}
                 THEN Put(dataObject, relation.column,
                          DBRef(CollectionOf(relation.document), held.id))
                 ELSE dataObject,
                 i + 1)

\* model[i].forEach raises when the model holds no list
WriteOneToManyThrows(model) ==
    \E i \in 1..Len(OneToMany) : model[OneToMany[i].field].kind # "list"

\* the one-to-many loop of convertModelRelationsToData
RECURSIVE WriteOneToMany(_, _, _)
WriteOneToMany(model, dataObject, i) ==
    IF i > Len(OneToMany) THEN dataObject
    ELSE LET relation == OneToMany[i]
             list == model[relation.field].list
         IN  WriteOneToMany(model,
                 Put(dataObject, relation.field,
                     [k \in 1..Len(list) |->
                         DBRef(CollectionOf(relation.document), list[k].id)]),
                 i + 1)

\* the one-to-one loop of mapPartialRelationsToModel
RECURSIVE ReadOneToOne(_, _, _)
ReadOneToOne(dataObject, model, i) ==
    IF i > Len(OneToOne) THEN model
    ELSE LET relation == OneToOne[i]
         IN  ReadOneToOne(dataObject,
                 IF relation.column \in DOMAIN dataObject
                 THEN Put(model, relation.field, OidOf(dataObject[relation.column]))
                 ELSE model,
                 i + 1)

\* data[relation.field].map raises when the data holds no list
ReadOneToManyThrows(dataObject) ==
    \E i \in 1..Len(OneToMany) : OneToMany[i].field \notin DOMAIN dataObject

\* the one-to-many loop of mapPartialRelationsToModel
RECURSIVE ReadOneToMany(_, _, _)
ReadOneToMany(dataObject, model, i) ==
    IF i > Len(OneToMany) THEN model
    ELSE LET relation == OneToMany[i]
             list == dataObject[relation.field]
         IN  ReadOneToMany(dataObject,
                 Put(model, relation.field, [k \in 1..Len(list) |-> OidOf(list[k])]),
                 i + 1)

InitRelations ==
    /\ InitPool
    /\ InitResolveIdle
    /\ InitTranslateIdle
    /\ InitCriteriaIdle
    /\ InitClientIdle
    /\ InitCodecIdle
    /\ relModel \in RelModels
    /\ relData = <<>>
    /\ relRead = <<>>
    /\ relPc = "start"

\* convertModelRelationsToData(metadata, model, data, cb); the references of
\* the one-to-one loop are in data when the one-to-many loop raises
ConvertModelRelationsToData ==
    /\ relPc = "start"
    /\ IF WriteOneToManyThrows(relModel)
       THEN /\ relData' = WriteOneToOne(relModel, relData, 1)
            /\ relPc' = "threw"
       ELSE /\ relData' = WriteOneToMany(relModel, WriteOneToOne(relModel, relData, 1), 1)
            /\ relPc' = "written"
    /\ UNCHANGED <<relModel, relRead>>
    /\ UNCHANGED nonRelationVars

\* mapPartialRelationsToModel(model, metadata, data, cb) on the data written
MapPartialRelationsToModel ==
    /\ relPc = "written"
    /\ IF ReadOneToManyThrows(relData)
       THEN /\ relRead' = ReadOneToOne(relData, relRead, 1)
            /\ relPc' = "threw"
       ELSE /\ relRead' = ReadOneToMany(relData, ReadOneToOne(relData, relRead, 1), 1)
            /\ relPc' = "read"
    /\ UNCHANGED <<relModel, relData>>
    /\ UNCHANGED nonRelationVars

NextRelations == ConvertModelRelationsToData \/ MapPartialRelationsToModel

SpecRelations == InitRelations /\ [][NextRelations]_vars

LiveConfigs ==
    { BaseConfig,
      ("host" :> Str("127.0.0.1")) @@ BaseConfig,
      ("poolSize" :> Num(10)) @@ BaseConfig }

AcquireLive == \E config \in LiveConfigs : Factory(config)

\* the callback of an open is called, with the client or with an error
OpenCompletes == OpenSucceeds \/ OpenFails

NextLive == AcquireLive \/ OpenSucceeds \/ OpenFails \/ RunImmediate

SpecLive ==
    Init /\ [][NextLive]_vars /\ WF_vars(OpenCompletes) /\ WF_vars(RunImmediate)

\* C31: every call of factory gets its callback invoked, and never more than
\* once: the call that opens, when its open completes, and every call that
\* polls while the fingerprint is locked, once the lock is released.
C31_EveryCallAnswered ==
    /\ [](\A c \in CallIds : calls[c].cbCount <= 1)
    /\ \A c \in 1..MaxCalls :
           (Len(calls) >= c) ~> (Len(calls) >= c /\ calls[c].pc = "done" /\ calls[c].cbCount = 1)

C31_Witness ==
    /\ Len(calls) >= 2
    /\ calls[1].role = "opener"
    /\ calls[2].role = "waiter"
    /\ calls[2].requeued
    /\ \A c \in CallIds : calls[c].pc = "done" /\ calls[c].cbCount = 1

\* ---------------------------------------------------------------------------
\* Claims about the lookups and the attachment of resolve (SpecResolve)
\* ---------------------------------------------------------------------------

\* C32: the batched lookup of every single-reference field filters the target
\* collection by the identifier field of that field's own target entity.
C32_OwnTargetIdField ==
    \A i \in 1..Len(fetches) :
        fetches[i].idFieldName = metadata.registry[fetches[i].document].idFieldName

\* C33: the targets of a field are attached only after mapDataToModels has
\* completed successfully for it; when mapDataToModels reports an error the
\* documents stay as they were, and the callback of resolve has been called
\* exactly once with an error, which is that error unless an earlier one was
\* already reported.
C33_AttachedAfterHydration ==
    /\ [](\A t \in 1..Len(tasks) :
              tasks[t].st # "done" =>
                  \A d \in 1..Len(data) :
                      data[d][tasks[t].field] = source[d][tasks[t].field])
    /\ [][\A t \in 1..Len(tasks) :
              (tasks[t].st = "mapping" /\ tasks'[t].st = "failed") =>
                  /\ data' = data
                  /\ Len(cbLog') = 1
                  /\ cbLog'[1].err # ""
                  /\ cbLog = <<>> =>
                         cbLog' = <<ErrEntry("map failed: " \o tasks[t].field)>>]_vars

\* one field has failed in mapDataToModels and is untouched, while another
\* field has been hydrated and attached
C33_Witness ==
    /\ Len(tasks) >= 2
    /\ \E t, u \in 1..Len(tasks) :
           /\ tasks[t].st = "failed"
           /\ cbLog = <<ErrEntry("map failed: " \o tasks[t].field)>>
           /\ \A d \in 1..Len(data) :
                  data[d][tasks[t].field] = source[d][tasks[t].field]
           /\ tasks[u].st = "done"
           /\ \E d \in 1..Len(data) :
                  data[d][tasks[u].field] # source[d][tasks[u].field]

\* C34: resolve does not raise for a batch in which a document holds nothing
\* in a list-reference field, and when it succeeds that document's field is
\* still absent or empty.
C34_AbsentListTolerated ==
    \A i \in 1..Len(metadata.oneToMany) :
        LET field == metadata.oneToMany[i].field
        IN (\E d \in 1..Len(source) : source[d][field] = Absent) =>
               /\ rpc # "threw"
               /\ Succeeded =>
                      \A d \in 1..Len(source) :
                          source[d][field] = Absent =>
                              data[d][field] \in {Absent, IdList(<<>>)}

\* ---------------------------------------------------------------------------
\* Claims about the order of the round trips and the filters of the client
\* (SpecClient)
\* ---------------------------------------------------------------------------

\* C35: in findByQuery with the count flag set the page is fetched only after
\* the count has returned a total; a failing count gives one callback, with
\* the error and a null result, and no page fetch; otherwise the callback is
\* called once, after the page fetch, and a fetched page comes with the total.
C35_CountThenPage ==
    (request.op = "findByQuery" /\ Truthy(request.countFoundRows)) =>
        /\ \A i \in 1..Len(storeCalls) :
               storeCalls[i].method = "toArray" =>
                   /\ i = 2
                   /\ storeCalls[1].method = "count"
                   /\ queryResult.totalRows # Null
        /\ kpc \in {"count", "store"} => cbCalls = <<>>
        /\ (kpc = "done" /\ Len(storeCalls) = 1) =>
               cbCalls = <<[err |-> "count failed",
                            result |-> Result("null", 0, <<>>, Null)]>>
        /\ (kpc = "done" /\ Len(storeCalls) = 2) =>
               /\ Len(cbCalls) = 1
               /\ cbCalls[1].err = "" =>
                      cbCalls[1].result =
                          Result("queryResult", 0,
                                 ToArray(store, storeCalls[2].cursor),
                                 Num(Count(store, storeCalls[1].cursor)))

\* the count of a query over a store with documents has failed
C35_Witness ==
    /\ request.op = "findByQuery"
    /\ Truthy(request.countFoundRows)
    /\ Len(store) = MaxRows
    /\ kpc = "done"
    /\ Len(storeCalls) = 1
    /\ storeCalls[1].method = "count"
    /\ Len(cbCalls) = 1
    /\ cbCalls[1].err = "count failed"

\* C37: the filter of update's updateOne holds the identifier field with the
\* given id, and the version field, with the version of data minus 1, exactly
\* when data carries a version that is not zero; what the filter matches in
\* the store has that id and, with a version in data, that earlier version.
C37_UpdateFilter ==
    \A i \in 1..Len(storeCalls) :
        storeCalls[i].method = "updateOne" =>
            LET filter == storeCalls[i].filter
                idField == request.idFieldName.s
                versioned == /\ "version" \in DOMAIN request.data
                             /\ NumberOf(request.data["version"]) # 0
            IN  /\ DOMAIN filter =
                       {idField} \cup (IF versioned THEN {"version"} ELSE {})
                /\ filter[idField] = Object("ObjectID", request.id.v, <<>>)
                /\ versioned =>
                       filter["version"] =
                           NumberValue(NumberOf(request.data["version"]) - 1)
                /\ kpc = "store" =>
                       \A d \in 1..Len(store) :
                           Matches(store[d], filter) =>
                               /\ store[d][idField].v = request.id.v
                               /\ versioned =>
                                      NumberOf(store[d]["version"]) =
                                          NumberOf(request.data["version"]) - 1

\* an update carrying version 2 has matched the stored document at version 1
C37_Witness ==
    /\ request.op = "update"
    /\ request.data = [name |-> StringValue("bob"), version |-> NumberValue(2)]
    /\ kpc = "done"
    /\ Len(cbCalls) = 1
    /\ cbCalls[1].result = Result("updateResult", 1, <<>>, Null)
    /\ \E d \in 1..Len(store) :
           store[d]["_id"].v = request.id.v /\ store[d]["version"] = NumberValue(2)

\* C36: when obtaining the collection reports an error, the callback of the
\* operation is called, once and with that error, and no call is made on the
\* collection.
C36_CollectionErrorReported ==
    [][CollectionFails =>
           /\ Len(cbCalls') = 1
           /\ cbCalls'[1].err = "collection failed"
           /\ storeCalls' = <<>>]_vars

\* C38: update and updateBy leave the data object of the caller as it was.
C38_CallerDataUnchanged ==
    [][request.op \in {"update", "updateBy"} => request'.data = request.data]_vars

\* ---------------------------------------------------------------------------
\* Claim about the totality of convertQueryToCriteria (SpecTranslate)
\* ---------------------------------------------------------------------------

\* C39: convertQueryToCriteria never raises, a condition value of null
\* included: it returns a filter over the fields of the conditions, and the
\* conditions of the query are after the call what they were before.
C39_TranslateTotal ==
    /\ [](/\ tpc # "threw"
          /\ tpc = "returned" => DOMAIN newQuery = DOMAIN query)
    /\ [][query' = query]_vars


====
